---------------------------- MODULE Spec2Model ----------------------------
(***************************************************************************)
(* A model of the farmOS area feature proxy: the WFS gateway and engine of *)
(* wfs_resource.py, the rendering wrapper of deferred_rendering_fn.py and  *)
(* the feature listing of fosafp.py.                                       *)
(*                                                                         *)
(* One request is served at a time by the WFS machine (the handlers share  *)
(* no mutable state): Receive, Resolve (WfsResource.getChildWithDefault),  *)
(* Render (WfsOnePointZeroResource.render up to the handler's first        *)
(* suspension), the handler's continuations, and the wrapper's end.        *)
(*                                                                         *)
(* Further machines, each with its own variables and specification: the    *)
(* session of a TxDrupalRestWsClient and the expiry derived for it, its    *)
(* entity operations, the vocabulary id of a TxFarmOsAreaClient and the    *)
(* area operations that use it, two clients side by side, the pages of a   *)
(* TxDrupalEntityPage listing with their traversal and get_all_entities,   *)
(* the cache of backend clients of fosafp.py, and the proxy feature        *)
(* server's listing cache and commit, which are written from the           *)
(* specification of that server.                                           *)
(***************************************************************************)
EXTENDS Integers, Sequences, FiniteSets, TLC

VARIABLES
    pc,                  \* position of the request being served
    request,             \* [method, args]: args is the raw request.args, in order
    child,               \* version of the engine getChildWithDefault returned
    raised,              \* the exception raised while serving the request
    capability_handler,  \* capability of the handler chosen by render
    calls,               \* FeatureServer methods invoked for the request, in order
    layer_arg,           \* layers passed to get_all_features, in order
    features,            \* result of get_all_features
    content,             \* the request body, once the Transaction handler read it
    transaction,         \* Transactions passed to commit_transaction, in order
    transaction_outcome, \* result of commit_transaction
    response_doc,        \* the document the handler returned
    response_code,       \* code set on the request
    written,             \* number of request.write calls
    finished             \* number of request.finish calls

VARIABLES
    fm_pc,               \* position of FarmOsAreaFeatureProxy._get_feature
    fm_type_name,        \* its typename argument
    fm_areas,            \* records returned by farm_os_client.area.get_all()
    fm_members           \* the feature members of the FeatureCollection

wfsVars == <<pc, request, child, raised, capability_handler, calls, layer_arg,
             features, content, transaction, transaction_outcome, response_doc,
             response_code, written, finished>>
fmVars == <<fm_pc, fm_type_name, fm_areas, fm_members>>

VARIABLES
    s_pc,                \* position of each caller of _ensure_authenticated
    csrf_token,          \* TxDrupalRestWsClient._csrf_token
    session_valid,       \* whether now < _session_expiry
    lock_locked,         \* _session_lock.locked
    lock_waiting,        \* _session_lock.waiting, the callers queued on the lock
    login_posts,         \* login POSTs sent so far
    token_gets,          \* session token GETs sent so far
    s_failures,          \* login sequences that ended in an exception
    s_expired,           \* sessions that ran out, or were stored already run out
    s_batch,             \* every call so far was issued with no valid session and
                         \* before any call had returned
    s_answers,           \* the status codes each call's login sequence was answered
    s_stored             \* the login sequences, numbered by their login POST, that
                         \* stored _csrf_token and _session_expiry; 0 when not set

sessionVars == <<s_pc, csrf_token, session_valid, lock_locked, lock_waiting,
                 login_posts, token_gets, s_failures, s_expired, s_batch, s_answers,
                 s_stored>>

VARIABLES
    pg_pc,               \* position of the walk over a listing's pages
    pg_count,            \* number of pages the backend has for the listing
    pg_pages,            \* the TxDrupalEntityPage objects made so far
    pg_cur,              \* the page object the walk is on
    pg_trail,            \* the pages visited: <<direction, page object>>, in order
    pg_retained,         \* no next_page of the walk was forgetful
    pg_fetches           \* page numbers asked of the backend, in order

pageVars == <<pg_pc, pg_count, pg_pages, pg_cur, pg_trail, pg_retained, pg_fetches>>

VARIABLES
    w_calls,             \* next_page and prev_page calls of a traversal so far
    w_step,              \* the last of them: the page it was called on, its direction,
                         \* what the page held in that direction, what the backend
                         \* was asked and named as last page, and what it returned
    all_pc,              \* position of get_all_entities
    all_sizes,           \* the number of records the backend has on each page
    all_entities,        \* its all_entities list
    all_returned         \* the records of the page it returned

walkVars == <<w_calls, w_step, all_pc, all_sizes, all_entities, all_returned>>

VARIABLES
    e_pc,                \* position of each caller's entity operation
    e_op,                \* the operation of each caller whose request is out
    e_requests,          \* entity requests sent for each caller's operation
    e_event              \* the last request sent or answer received

entityVars == <<e_pc, e_op, e_requests, e_event>>

VARIABLES
    p_spc,               \* position of each call in its client's _ensure_authenticated
    p_vpc,               \* and in its client's _get_area_vocabulary_id
    p_slock,             \* the session locks: [locked, waiting]
    p_vlock,             \* the vocabulary locks: [locked, waiting]
    p_token,             \* _csrf_token of each client
    p_vid,               \* _area_vocabulary_id of each client
    p_posts,             \* login POSTs sent by each client
    p_lookups,           \* vocabulary lookups sent by each client
    p_returned           \* the vocabulary id each call got

peerVars == <<p_spc, p_vpc, p_slock, p_vlock, p_token, p_vid, p_posts, p_lookups,
              p_returned>>

VARIABLES
    lc_pc,               \* position of each "all features" request of one client
    lc_epoch,            \* number of expiries and commits so far
    lc_asked,            \* for each request, the lc_epoch it was issued in
    lc_held,             \* for each request, the cache cell it works on
    lc_entry,            \* the client's cell in the cache, if any
    lc_cells,            \* the cells made so far: [value, locked, waiting]
    lc_calls,            \* the backend listing calls: the epoch of the caller
    lc_after             \* what the first request after a commit did

listingVars == <<lc_pc, lc_epoch, lc_asked, lc_held, lc_entry, lc_cells, lc_calls,
                 lc_after>>

VARIABLES
    cm_pc,               \* position of the commit of a transaction
    cm_items,            \* its work items: "insert", "update" or "delete" each
    cm_state,            \* each item: "queued", "inflight", "ok", "failed", "dropped"
    cm_outcome,          \* the TransactionOutcome of the commit, as counts
    cm_invalidated       \* the client's "all features" entry was cleared

commitVars == <<cm_pc, cm_items, cm_state, cm_outcome, cm_invalidated>>

VARIABLES
    cc_cache,            \* the lru_cache of clients: <<credentials, client>>, the
                         \* least recently used first
    cc_made,             \* the credentials each client was created with, in order
    cc_last              \* what the last _create_farm_os_client call did

clientVars == <<cc_cache, cc_made, cc_last>>

VARIABLES
    v_pc,                \* position of each caller of _get_area_vocabulary_id
    area_vocabulary_id,  \* TxFarmOsAreaClient._area_vocabulary_id
    vlock_locked,        \* _area_vocabulary_id_lock.locked
    vlock_waiting,       \* _area_vocabulary_id_lock.waiting
    v_lookups,           \* vocabulary lookups sent to the backend so far
    v_failures,          \* lookups that ended in an exception
    v_returned,          \* what each call returned
    v_stored,            \* the ids stored so far, in order
    v_batch              \* every call so far was issued with no id stored and
                         \* before any call had returned

vocabularyVars == <<v_pc, area_vocabulary_id, vlock_locked, vlock_waiting, v_lookups,
                    v_failures, v_returned, v_stored, v_batch>>

VARIABLES
    cookie_jar,          \* TxDrupalRestWsClient._cookie_jar after a login
    now,                 \* datetime.now(timezone.utc) when the expiry is derived
    session_expiry       \* TxDrupalRestWsClient._session_expiry, once derived

expiryVars == <<cookie_jar, now, session_expiry>>

exceptWfs ==
    <<fmVars, sessionVars, pageVars, listingVars, commitVars, clientVars,
      vocabularyVars, expiryVars, walkVars, entityVars, peerVars>>
exceptFm ==
    <<wfsVars, sessionVars, pageVars, listingVars, commitVars, clientVars,
      vocabularyVars, expiryVars, walkVars, entityVars, peerVars>>
exceptSession ==
    <<wfsVars, fmVars, pageVars, listingVars, commitVars, clientVars,
      vocabularyVars, expiryVars, walkVars, entityVars, peerVars>>
exceptPage ==
    <<wfsVars, fmVars, sessionVars, listingVars, commitVars, clientVars,
      vocabularyVars, expiryVars, walkVars, entityVars, peerVars>>
exceptListing ==
    <<wfsVars, fmVars, sessionVars, pageVars, commitVars, clientVars,
      vocabularyVars, expiryVars, walkVars, entityVars, peerVars>>
exceptCommit ==
    <<wfsVars, fmVars, sessionVars, pageVars, listingVars, clientVars,
      vocabularyVars, expiryVars, walkVars, entityVars, peerVars>>
exceptVocabulary ==
    <<wfsVars, fmVars, sessionVars, pageVars, listingVars, commitVars, clientVars,
      expiryVars, walkVars, entityVars, peerVars>>
exceptExpiry ==
    <<wfsVars, fmVars, sessionVars, pageVars, listingVars, commitVars, clientVars,
      vocabularyVars, walkVars, entityVars, peerVars>>
exceptClient ==
    <<wfsVars, fmVars, sessionVars, pageVars, listingVars, commitVars,
      vocabularyVars, expiryVars, walkVars, entityVars, peerVars>>
exceptWalk ==
    <<wfsVars, fmVars, sessionVars, listingVars, commitVars, clientVars,
      vocabularyVars, expiryVars, entityVars, peerVars>>
exceptEntity ==
    <<wfsVars, fmVars, sessionVars, pageVars, listingVars, commitVars, clientVars,
      vocabularyVars, expiryVars, walkVars, peerVars>>
exceptPeer ==
    <<wfsVars, fmVars, sessionVars, pageVars, listingVars, commitVars, clientVars,
      vocabularyVars, expiryVars, walkVars, entityVars>>
vars == <<wfsVars, fmVars, sessionVars, pageVars, listingVars, commitVars,
          clientVars, vocabularyVars, expiryVars, walkVars, entityVars, peerVars>>

None == "<None>"
NoVersion == <<>>

(***************************************************************************)
(* Helpers of wfs_resource.py.                                             *)
(***************************************************************************)
first(iterable, default) ==
    IF Len(iterable) = 0 THEN default ELSE iterable[1]

\* bytes.lower() on the argument names the model uses
Lower(k) ==
    CASE k = "SERVICE" -> "service"
      [] k = "VERSION" -> "version"
      [] k = "REQUEST" -> "request"
      [] k = "TYPENAME" -> "typename"
      [] OTHER -> k

\* {k.lower(): v for k, v in request.args.items()}: a later item overwrites
LowerArgs(raw) ==
    [k \in {Lower(raw[i][1]) : i \in DOMAIN raw} |->
        LET last == CHOOSE i \in DOMAIN raw :
                        /\ Lower(raw[i][1]) = k
                        /\ \A j \in DOMAIN raw : Lower(raw[j][1]) = k => j <= i
        IN  raw[last][2]]

DictGet(d, k, default) == IF k \in DOMAIN d THEN d[k] ELSE default

\* semantic_version.Version(str): a triple, or NoVersion where it raises ValueError
Version(s) ==
    CASE s = "0.9.0" -> <<0, 9, 0>>
      [] s = "1.0.0" -> <<1, 0, 0>>
      [] s = "1.1.0" -> <<1, 1, 0>>
      [] OTHER -> NoVersion

VersionLeq(a, b) ==
    \/ a[1] < b[1]
    \/ a[1] = b[1] /\ a[2] < b[2]
    \/ a[1] = b[1] /\ a[2] = b[2] /\ a[3] <= b[3]

MinVersion(S) == CHOOSE v \in S : \A w \in S : VersionLeq(v, w)
MaxVersion(S) == CHOOSE v \in S : \A w \in S : VersionLeq(w, v)

(***************************************************************************)
(* The FeatureServer behind the engine: its layers and what it may answer. *)
(***************************************************************************)
LayerDefinitions ==
    << [name |-> "points", geometry_type |-> "PointPropertyType",
        operations |-> {"Query", "Insert", "Update", "Delete"},
        fields |-> << [name |-> "area_name", required |-> TRUE],
                      [name |-> "description", required |-> FALSE] >>],
       [name |-> "lines", geometry_type |-> "LineStringPropertyType",
        operations |-> {"Query"},
        fields |-> << [name |-> "area_name", required |-> TRUE] >>] >>

NoLayer == [name |-> None, geometry_type |-> None, operations |-> {}, fields |-> <<>>]

\* next(filter(lambda layer_def: layer_def.name == type_name, layer_definitions), None)
LayerNamed(layer_definitions, type_name) ==
    LET hits == {i \in DOMAIN layer_definitions : layer_definitions[i].name = type_name}
    IN  IF hits = {} THEN NoLayer
        ELSE layer_definitions[CHOOSE i \in hits : \A j \in hits : i <= j]

(***************************************************************************)
(* WfsResource: version negotiation.                                       *)
(***************************************************************************)
\* WfsResource.__init__: one engine per supported version
version_specific_resources == << [version |-> <<1, 0, 0>>, gml_version |-> <<2, 1, 2>>] >>

by_version ==
    {version_specific_resources[i].version : i \in DOMAIN version_specific_resources}

min_version == MinVersion(by_version)
max_version == MaxVersion(by_version)

Returned(v) == [raised |-> None, version |-> v]
Raise(exc) == [raised |-> exc, version |-> NoVersion]

\* sorted(acceptable_versions, reversed=True): sorted() takes key and reverse only,
\* so the call raises TypeError whatever the list holds
SortedReversed(versions) == Raise("TypeError")

\* a service argument that is left out counts as WFS
requested_service_defaulting(args) == first(DictGet(args, "service", <<>>), "WFS")

\* _first(args.get(b'service', ()), None)
requested_service(args) == first(DictGet(args, "service", <<>>), None)

\* the branch for a request without a version is missing
response_version_no_default(version_arg) ==
    LET requested_version == IF version_arg = None THEN NoVersion ELSE Version(version_arg)
    IN  IF version_arg /= None /\ version_arg /= "" /\ requested_version = NoVersion
        THEN Raise("ValueError")
        ELSE IF requested_version \in by_version THEN Returned(requested_version)
        ELSE SortedReversed({})

\* the version getChildWithDefault answers with, given the version argument: an
\* empty argument is falsy and counts as absent
response_version(version_arg) ==
    IF version_arg = None \/ version_arg = "" THEN Returned(max_version)
    ELSE LET requested_version == Version(version_arg)
         IN  IF requested_version = NoVersion THEN Raise("ValueError")
             ELSE IF requested_version \in by_version
                  THEN Returned(requested_version)
             ELSE LET acceptable_versions ==
                          {v \in by_version : VersionLeq(v, requested_version)}
                  IN  SortedReversed(acceptable_versions)

\* WfsResource.getChildWithDefault
getChildWithDefault(req) ==
    LET args == LowerArgs(req.args)
    IN  IF requested_service(args) /= "WFS" THEN Raise("InvalidWfsRequest")
        ELSE response_version(first(DictGet(args, "version", <<>>), None))

(***************************************************************************)
(* WfsOnePointZeroResource: capability dispatch.                           *)
(***************************************************************************)
\* the capability handlers and the HTTP methods each lists
capability_handlers ==
    [c \in {"GetCapabilities", "DescribeFeatureType", "GetFeature", "Transaction"} |->
        IF c = "Transaction" THEN {"Post"} ELSE {"Get"}]

\* request.method.decode('utf-8').lower().capitalize()
Capitalize(method) ==
    CASE method = "GET" -> "Get"
      [] method = "POST" -> "Post"
      [] method = "post" -> "Post"
      [] method = "HEAD" -> "Head"
      [] OTHER -> method

\* every handler answers every method
method_supported_any(method, request_type) == TRUE

\* request.method.decode('utf-8').lower().capitalize() in capability_handler.methods
method_supported(method, request_type) ==
    Capitalize(method) \in capability_handlers[request_type]

Dispatched(c) == [raised |-> None, capability |-> c]
DispatchRaise(exc) == [raised |-> exc, capability |-> None]

\* a POST is dispatched by its request argument like any other request
dispatch_post_by_name(req) ==
    LET args == LowerArgs(req.args)
        request_type == first(DictGet(args, "request", <<>>), None)
    IN  IF request_type \notin DOMAIN capability_handlers
        THEN DispatchRaise("InvalidWfsRequest")
        ELSE IF ~method_supported(req.method, request_type)
             THEN DispatchRaise("InvalidWfsRequest")
             ELSE Dispatched(request_type)

\* render, up to the call of capability_handler.handle
dispatch(req) ==
    LET args == LowerArgs(req.args)
    IN  IF req.method = "POST" THEN Dispatched("Transaction")
        ELSE LET request_type == first(DictGet(args, "request", <<>>), None)
             IN  IF request_type \notin DOMAIN capability_handlers
                 THEN DispatchRaise("InvalidWfsRequest")
                 ELSE IF ~method_supported(req.method, request_type)
                      THEN DispatchRaise("InvalidWfsRequest")
                      ELSE Dispatched(request_type)

(***************************************************************************)
(* TransactionCapabilityHandler: reading the request body.                 *)
(*                                                                         *)
(* A body is [root, actions]; an action is [tag, handle, typeName,         *)
(* features, properties, filters]: features are the children of an Insert, *)
(* properties the wfs:Property children and filters the ogc:Filter         *)
(* children of an Update or Delete, each filter being its own children.    *)
(* Looking up a child that is not there (action[tag], element.name) raises *)
(* AttributeError in lxml.objectify.                                       *)
(***************************************************************************)
CommitOutcomeItem(data, layer_def, handle) ==
    [data |-> data, layer_def |-> layer_def, handle |-> handle]

UncommittedFeature(layer_def, geometry, field_data, handle) ==
    [layer_def |-> layer_def, geometry |-> geometry, field_data |-> field_data,
     handle |-> handle]

UncommittedFeatureUpdate(layer_def, feature_id, geometry, field_data, handle) ==
    [layer_def |-> layer_def, feature_id |-> feature_id, geometry |-> geometry,
     field_data |-> field_data, handle |-> handle]

\* handle defaults to None
UncommittedFeatureDelete(layer_def, feature_id) ==
    [layer_def |-> layer_def, feature_id |-> feature_id, handle |-> None]

\* the four lists of the handler, and the exception that ended the reading
EmptyRead ==
    [raised |-> None, features_to_insert |-> <<>>, features_to_update |-> <<>>,
     features_to_delete |-> <<>>, wfs_read_transaction_failures |-> <<>>]

ReadFailure(acc, item) ==
    [acc EXCEPT !.wfs_read_transaction_failures = Append(@, item)]

ReadRaise(acc, exc) == [acc EXCEPT !.raised = exc]

\* A dict of field texts is a set of <<name, text>> pairs, one per name.
DictText(d, name) ==
    IF \E p \in d : p[1] = name THEN (CHOOSE p \in d : p[1] = name)[2] ELSE None

DictPut(d, name, value) == {p \in d : p[1] /= name} \cup {<<name, value>>}

FieldNames(layer_def) == {layer_def.fields[i].name : i \in DOMAIN layer_def.fields}

\* the required fields are not looked at
read_insert_feature_required_unchecked(acc, layer_definitions, handle, feature) ==
    LET layer_def == LayerNamed(layer_definitions, feature.type)
        field_data ==
            {<<name, DictText(feature.fields, name)>> :
                name \in {n \in FieldNames(layer_def) : DictText(feature.fields, n) /= None}}
    IN  IF layer_def = NoLayer
        THEN ReadFailure(acc, CommitOutcomeItem(
                 "Received invalid feature to insert for unknown TYPENAME", None, handle))
        ELSE IF "Insert" \notin layer_def.operations
        THEN ReadFailure(acc, CommitOutcomeItem(
                 "Received unsupported operation insert for TYPENAME", None, handle))
        ELSE IF ~feature.has_geometry
        THEN ReadRaise(acc, "AttributeError")
        ELSE IF Len(feature.geos) /= 1
        THEN ReadFailure(acc, CommitOutcomeItem(
                 "Received invalid feature to insert with n geometries",
                 layer_def.name, handle))
        ELSE [acc EXCEPT !.features_to_insert =
                 Append(@, UncommittedFeature(layer_def.name, feature.geos[1],
                                              field_data, handle))]

\* read_insert_feature
read_insert_feature(acc, layer_definitions, handle, feature) ==
    LET type_name == feature.type
        layer_def == LayerNamed(layer_definitions, type_name)
        text(name) == DictText(feature.fields, name)
        missing_required_field_names ==
            {i \in DOMAIN layer_def.fields :
                layer_def.fields[i].required /\ text(layer_def.fields[i].name) = None}
        field_data ==
            {<<name, text(name)>> : name \in {n \in FieldNames(layer_def) : text(n) /= None}}
    IN  IF layer_def = NoLayer
        THEN ReadFailure(acc, CommitOutcomeItem(
                 "Received invalid feature to insert for unknown TYPENAME", None, handle))
        ELSE IF "Insert" \notin layer_def.operations
        THEN ReadFailure(acc, CommitOutcomeItem(
                 "Received unsupported operation insert for TYPENAME", None, handle))
        ELSE IF ~feature.has_geometry
        THEN ReadRaise(acc, "AttributeError")
        ELSE IF Len(feature.geos) /= 1
        THEN ReadFailure(acc, CommitOutcomeItem(
                 "Received invalid feature to insert with n geometries",
                 layer_def.name, handle))
        ELSE IF missing_required_field_names /= {}
        THEN ReadFailure(acc, CommitOutcomeItem(
                 "Received invalid feature to insert with missing required fields",
                 layer_def.name, handle))
        ELSE [acc EXCEPT !.features_to_insert =
                 Append(@, UncommittedFeature(layer_def.name, feature.geos[1],
                                              field_data, handle))]

RECURSIVE read_insert_features(_, _, _, _)
\* for feature in action.iterchildren(): read_insert_feature(handle, feature)
read_insert_features(acc, layer_definitions, handle, feats) ==
    IF acc.raised /= None \/ Len(feats) = 0 THEN acc
    ELSE read_insert_features(
             read_insert_feature(acc, layer_definitions, handle, Head(feats)),
             layer_definitions, handle, Tail(feats))

\* the state of read_update's loop over the properties
NoGeometry == None

RECURSIVE read_properties_geometry_ends(_, _, _, _)
\* a geometry property without exactly one geometry ends the loop over the properties
read_properties_geometry_ends(st, layer_def, handle, props) ==
    IF st.raised /= None \/ Len(props) = 0 THEN st
    ELSE LET update_property == Head(props)
             property_name == update_property.name
         IN  IF ~update_property.has_name
             THEN [st EXCEPT !.raised = "AttributeError"]
             ELSE IF property_name = "geometry" /\ ~update_property.has_value
             THEN [st EXCEPT !.raised = "AttributeError"]
             ELSE IF property_name = "geometry" /\ Len(update_property.geos) /= 1
             THEN [st EXCEPT !.failures = Append(@, CommitOutcomeItem(
                      "Received invalid feature update with n geometries",
                      layer_def.name, handle))]
             ELSE read_properties_geometry_ends(
                      IF property_name = "geometry"
                      THEN [st EXCEPT !.geometry = update_property.geos[1]]
                      ELSE IF property_name \notin FieldNames(layer_def)
                      THEN st
                      ELSE IF ~update_property.has_value
                      THEN [st EXCEPT !.raised = "AttributeError"]
                      ELSE [st EXCEPT !.field_data =
                               DictPut(@, property_name, update_property.text)],
                      layer_def, handle, Tail(props))

RECURSIVE read_properties(_, _, _, _)
\* for update_property in action[nsTag.wfs.Property]
read_properties(st, layer_def, handle, props) ==
    IF st.raised /= None \/ Len(props) = 0 THEN st
    ELSE LET update_property == Head(props)
             property_name == update_property.name
             next ==
                 IF ~update_property.has_name
                 THEN [st EXCEPT !.raised = "AttributeError"]
                 ELSE IF property_name = "geometry"
                 THEN IF ~update_property.has_value
                      THEN [st EXCEPT !.raised = "AttributeError"]
                      ELSE IF Len(update_property.geos) /= 1
                      THEN [st EXCEPT !.failures = Append(@, CommitOutcomeItem(
                               "Received invalid feature update with n geometries",
                               layer_def.name, handle))]
                      ELSE [st EXCEPT !.geometry = update_property.geos[1]]
                 ELSE IF property_name \notin FieldNames(layer_def)
                 THEN st
                 ELSE IF ~update_property.has_value
                 THEN [st EXCEPT !.raised = "AttributeError"]
                 ELSE [st EXCEPT !.field_data =
                          DictPut(@, property_name, update_property.text)]
         IN  read_properties(next, layer_def, handle, Tail(props))

\* the children of the filters read_update walks: those of every ogc:Filter, in order
RECURSIVE Flatten(_)
Flatten(seqs) == IF Len(seqs) = 0 THEN <<>> ELSE Head(seqs) \o Flatten(Tail(seqs))

\* the loop over the filter children returns after its first turn
read_update_filters_first(acc, layer_def, handle, geometry, field_data, children) ==
    IF Len(children) = 0 THEN acc
    ELSE IF Head(children).tag /= "FeatureId"
    THEN ReadFailure(acc, CommitOutcomeItem(
             "Only updating features by feature id is supported",
             layer_def.name, handle))
    ELSE [acc EXCEPT !.features_to_update =
             Append(@, UncommittedFeatureUpdate(layer_def.name, Head(children).fid,
                                                geometry, field_data, handle))]

RECURSIVE read_update_filters(_, _, _, _, _, _)
\* the loop over the filter children: the first child that is no FeatureId ends
\* read_update, the updates appended before it stay
read_update_filters(acc, layer_def, handle, geometry, field_data, children) ==
    IF Len(children) = 0 THEN acc
    ELSE LET update_filter == Head(children)
         IN  IF update_filter.tag /= "FeatureId"
             THEN ReadFailure(acc, CommitOutcomeItem(
                      "Only updating features by feature id is supported",
                      layer_def.name, handle))
             ELSE read_update_filters(
                      [acc EXCEPT !.features_to_update =
                          Append(@, UncommittedFeatureUpdate(layer_def.name,
                                     update_filter.fid, geometry, field_data, handle))],
                      layer_def, handle, geometry, field_data, Tail(children))

\* read_update
read_update(acc, layer_definitions, handle, action) ==
    LET type_name == action.typeName
        layer_def == LayerNamed(layer_definitions, type_name)
        st == read_properties(
                  [raised |-> None, geometry |-> NoGeometry, field_data |-> {},
                   failures |-> <<>>],
                  layer_def, handle, action.properties)
        read == [acc EXCEPT !.wfs_read_transaction_failures = @ \o st.failures]
    IN  IF layer_def = NoLayer
        THEN ReadFailure(acc, CommitOutcomeItem(
                 "Received update for unknown TYPENAME", None, handle))
        ELSE IF "Update" \notin layer_def.operations
        THEN ReadFailure(acc, CommitOutcomeItem(
                 "Received unsupported operation update for TYPENAME", None, handle))
        ELSE IF Len(action.properties) = 0
        THEN ReadRaise(acc, "AttributeError")
        ELSE IF st.raised /= None
        THEN ReadRaise(acc, st.raised)
        ELSE IF Len(action.filters) = 0
        THEN ReadRaise(acc, "AttributeError")
        ELSE read_update_filters(read, layer_def, handle, st.geometry, st.field_data,
                                 Flatten(action.filters))

RECURSIVE read_delete_filters_continue(_, _, _, _)
\* a child that is no FeatureId is reported and the loop goes on
read_delete_filters_continue(acc, layer_def, handle, children) ==
    IF Len(children) = 0 THEN acc
    ELSE LET deletion_filter == Head(children)
         IN  read_delete_filters_continue(
                 IF deletion_filter.tag /= "FeatureId"
                 THEN ReadFailure(acc, CommitOutcomeItem(
                          "Only deleting features by feature id is supported",
                          layer_def.name, handle))
                 ELSE [acc EXCEPT !.features_to_delete =
                          Append(@, UncommittedFeatureDelete(layer_def.name,
                                                             deletion_filter.fid))],
                 layer_def, handle, Tail(children))

RECURSIVE read_delete_filters(_, _, _, _)
\* the loop over the children of the first ogc:Filter
read_delete_filters(acc, layer_def, handle, children) ==
    IF Len(children) = 0 THEN acc
    ELSE LET deletion_filter == Head(children)
         IN  IF deletion_filter.tag /= "FeatureId"
             THEN ReadFailure(acc, CommitOutcomeItem(
                      "Only deleting features by feature id is supported",
                      layer_def.name, handle))
             ELSE read_delete_filters(
                      [acc EXCEPT !.features_to_delete =
                          Append(@, UncommittedFeatureDelete(layer_def.name,
                                                             deletion_filter.fid))],
                      layer_def, handle, Tail(children))

\* read_delete
read_delete(acc, layer_definitions, handle, action) ==
    LET type_name == action.typeName
        layer_def == LayerNamed(layer_definitions, type_name)
    IN  IF layer_def = NoLayer
        THEN ReadFailure(acc, CommitOutcomeItem(
                 "Received delete for unknown TYPENAME", None, handle))
        ELSE IF "Delete" \notin layer_def.operations
        THEN ReadFailure(acc, CommitOutcomeItem(
                 "Received unsupported operation delete for TYPENAME", None, handle))
        ELSE IF Len(action.filters) = 0
        THEN ReadRaise(acc, "AttributeError")
        ELSE read_delete_filters(acc, layer_def, handle, action.filters[1])

\* one turn of the loop over wfs_transaction.iterchildren()
read_action(acc, layer_definitions, action) ==
    LET handle == action.handle
    IN  IF action.tag = "Insert"
        THEN read_insert_features(acc, layer_definitions, handle, action.features)
        ELSE IF action.tag = "Update"
        THEN read_update(acc, layer_definitions, handle, action)
        ELSE IF action.tag = "Delete"
        THEN read_delete(acc, layer_definitions, handle, action)
        ELSE ReadFailure(acc, CommitOutcomeItem(
                 "Received unknown operation type: ", None, handle))

RECURSIVE read_actions_until_failure(_, _, _)
\* the loop ends at the first action that recorded a read failure
read_actions_until_failure(acc, layer_definitions, actions) ==
    IF \/ acc.raised /= None
       \/ Len(actions) = 0
       \/ Len(acc.wfs_read_transaction_failures) > 0
    THEN acc
    ELSE read_actions_until_failure(read_action(acc, layer_definitions, Head(actions)),
                                    layer_definitions, Tail(actions))

RECURSIVE read_actions(_, _, _)
\* for action in wfs_transaction.iterchildren()
read_actions(acc, layer_definitions, actions) ==
    IF acc.raised /= None \/ Len(actions) = 0 THEN acc
    ELSE read_actions(read_action(acc, layer_definitions, Head(actions)),
                      layer_definitions, Tail(actions))

\* TransactionCapabilityHandler.handle from objectify.parse to Transaction(...)
read_transaction(layer_definitions, wfs_transaction) ==
    IF wfs_transaction.root = "Malformed" THEN ReadRaise(EmptyRead, "XMLSyntaxError")
    ELSE IF wfs_transaction.root /= "Transaction" THEN ReadRaise(EmptyRead, "Exception")
    ELSE read_actions(EmptyRead, layer_definitions, wfs_transaction.actions)

Transaction(read) ==
    [features_to_insert |-> read.features_to_insert,
     features_to_update |-> read.features_to_update,
     features_to_delete |-> read.features_to_delete,
     read_transaction_failures |-> read.wfs_read_transaction_failures]

(***************************************************************************)
(* TransactionCapabilityHandler: the response.                             *)
(***************************************************************************)
TransactionOutcome(inserted, updated, deleted, failures) ==
    [inserted_features |-> inserted, updated_features |-> updated,
     deleted_features |-> deleted, transaction_failures |-> failures]

\* get_handle: item.handle or ''
get_handle(item) == IF item.handle = None THEN "" ELSE item.handle

\* the order of Python strings on the handles the model uses
HandleRank(h) == CASE h = "" -> 0 [] h = "h1" -> 1 [] h = "h2" -> 2 [] OTHER -> 3

RECURSIVE InsertSorted(_, _)
InsertSorted(sorted, item) ==
    IF Len(sorted) = 0 THEN <<item>>
    ELSE IF HandleRank(get_handle(item)) < HandleRank(get_handle(Head(sorted)))
         THEN <<item>> \o sorted
         ELSE <<Head(sorted)>> \o InsertSorted(Tail(sorted), item)

RECURSIVE SortedByHandle(_)
\* sorted(items, key=get_handle): stable
SortedByHandle(items) ==
    IF Len(items) = 0 THEN <<>>
    ELSE InsertSorted(SortedByHandle(SubSeq(items, 1, Len(items) - 1)), items[Len(items)])

\* _group_by_handle: groupby() is given no key, so it groups equal neighbours of the
\* sorted items themselves; CommitOutcomeItem defines no equality and every item is
\* an object of its own, so each group holds one item
group_by_handle(items) ==
    LET sorted == SortedByHandle(items)
    IN  [i \in 1..Len(sorted) |-> <<sorted[i]>>]

\* optional_handle_attribute_for: the handle attribute of an InsertResult, if any
optional_handle_attribute_for(insert_results) ==
    LET handle == IF Len(insert_results) = 0 THEN "" ELSE insert_results[1].handle
    IN  IF handle = None \/ handle = "" THEN None ELSE handle

Successes(outcome) ==
    Len(outcome.inserted_features) + Len(outcome.updated_features)
        + Len(outcome.deleted_features)

\* the failures found while reading are left out of the status
transaction_status_commit_only(wfs_read_transaction_failures, outcome) ==
    LET any_successes == Successes(outcome) > 0
    IN  IF any_successes /\ Len(outcome.transaction_failures) = 0 THEN "SUCCESS"
        ELSE IF any_successes THEN "PARTIAL"
        ELSE "FAILED"

\* the status element of the TransactionResult
transaction_status(wfs_read_transaction_failures, outcome) ==
    LET all_transaction_failures ==
            wfs_read_transaction_failures \o outcome.transaction_failures
        any_successes == Successes(outcome) > 0
    IN  IF any_successes /\ Len(all_transaction_failures) = 0 THEN "SUCCESS"
        ELSE IF any_successes THEN "PARTIAL"
        ELSE "FAILED"

NoDoc ==
    [root |-> None, status |-> None, messages |-> <<>>, members |-> <<>>,
     insert_results |-> <<>>]

\* the failures of the commit are listed before those found while reading
TransactionResponse_commit_first(wfs_read_transaction_failures, outcome) ==
    LET all_transaction_failures ==
            outcome.transaction_failures \o wfs_read_transaction_failures
    IN  [root |-> "TransactionResponse",
         status |-> transaction_status(wfs_read_transaction_failures, outcome),
         messages |-> [i \in 1..Len(all_transaction_failures) |->
                          all_transaction_failures[i].data],
         members |-> <<>>,
         insert_results |-> <<>>]

\* wfs.TransactionResponse(...)
TransactionResponse(wfs_read_transaction_failures, outcome) ==
    LET all_transaction_failures ==
            wfs_read_transaction_failures \o outcome.transaction_failures
        insert_results_by_handle == group_by_handle(outcome.inserted_features)
    IN  [root |-> "TransactionResponse",
         status |-> transaction_status(wfs_read_transaction_failures, outcome),
         messages |-> [i \in 1..Len(all_transaction_failures) |->
                          all_transaction_failures[i].data],
         members |-> <<>>,
         insert_results |->
             [g \in 1..Len(insert_results_by_handle) |->
                 [fids |-> [i \in 1..Len(insert_results_by_handle[g]) |->
                               insert_results_by_handle[g][i].data],
                  handle |-> optional_handle_attribute_for(insert_results_by_handle[g])]]]

(***************************************************************************)
(* The read handlers' documents.                                           *)
(***************************************************************************)
\* GetCapabilitiesCapabilityHandler: one FeatureType per layer
WFS_Capabilities(layer_definitions) ==
    [NoDoc EXCEPT !.root = "WFS_Capabilities",
                  !.members = [i \in DOMAIN layer_definitions |->
                      [name |-> layer_definitions[i].name,
                       operations |-> layer_definitions[i].operations
                                        \cap {"Query", "Insert", "Update", "Delete"}]]]

RECURSIVE SelectSeq2(_, _)
\* list(filter(lambda layer_def: layer_def.name == name, layer_definitions))
SelectSeq2(layer_definitions, name) ==
    IF Len(layer_definitions) = 0 THEN <<>>
    ELSE IF Head(layer_definitions).name = name
         THEN <<Head(layer_definitions)>> \o SelectSeq2(Tail(layer_definitions), name)
         ELSE SelectSeq2(Tail(layer_definitions), name)

\* DescribeFeatureTypeCapabilityHandler: one element and complexType per layer
schema(layer_definitions, args) ==
    LET requested_type_name == first(DictGet(args, "typename", <<>>), "")
        selected == IF requested_type_name /= ""
                    THEN SelectSeq2(layer_definitions, requested_type_name)
                    ELSE layer_definitions
    IN  [NoDoc EXCEPT !.root = "schema",
                      !.members = [i \in DOMAIN selected |->
                          [name |-> selected[i].name,
                           geometry_type |-> selected[i].geometry_type]]]

\* GetFeatureCapabilityHandler.to_feature_member
feature_member(layer_def, feature) ==
    [fid |-> feature.feature_id, geometry |-> feature.geometry,
     fields |-> {p \in feature.field_data : p[1] \in FieldNames(layer_def)}]

FeatureCollection(layer_def, feats) ==
    [NoDoc EXCEPT !.root = "FeatureCollection",
                  !.members = [i \in DOMAIN feats |-> feature_member(layer_def, feats[i])]]

(***************************************************************************)
(* The inputs: requests, bodies and the FeatureServer's answers.           *)
(***************************************************************************)
Arg(key, value) == << <<key, <<value>>>> >>

\* the service argument, under both spellings of its name and in both orders
ServiceArgs ==
    { <<>>,
      Arg("service", "WFS"),
      Arg("SERVICE", "WFS"),
      Arg("SERVICE", "wfs"),
      << <<"SERVICE", <<"WCS", "WFS">>>> >>,
      Arg("SERVICE", "WFS") \o Arg("service", "WCS"),
      Arg("service", "WCS") \o Arg("SERVICE", "WFS") }

OptArg(key, values) == {<<>>} \cup {Arg(key, v) : v \in values}

VersionArgs == OptArg("VERSION", {"", "1.0.0", "0.9.0", "1.1.0", "1.0"})
RequestArgs ==
    OptArg("REQUEST", {"GetCapabilities", "DescribeFeatureType", "GetFeature",
                       "Transaction", "getfeature"})
TypenameArgs == OptArg("TYPENAME", {"points", "lines", "polygons"})
Methods == {"GET", "POST", "HEAD", "post"}

Requests ==
    {[method |-> m, args |-> s \o v \o r \o t] :
        m \in Methods, s \in ServiceArgs, v \in VersionArgs, r \in RequestArgs,
        t \in TypenameArgs}

\* the requests that exercise the Transaction handler
TransactionRequests ==
    {[method |-> m, args |-> s \o r] :
        m \in {"POST", "GET"}, s \in {Arg("SERVICE", "WFS"), <<>>},
        r \in {<<>>, Arg("REQUEST", "Transaction")}}

FeatureId(fid) == [tag |-> "FeatureId", fid |-> fid]
OtherFilter == [tag |-> "PropertyIsEqualTo", fid |-> None]

InsertFeature(type, has_geometry, geos, fields) ==
    [type |-> type, has_geometry |-> has_geometry, geos |-> geos, fields |-> fields]

Property(name, geos, text) ==
    [has_name |-> TRUE, name |-> name, has_value |-> TRUE, geos |-> geos, text |-> text]

Insert(handle, feats) ==
    [tag |-> "Insert", handle |-> handle, typeName |-> "", features |-> feats,
     properties |-> <<>>, filters |-> <<>>]

Update(handle, typeName, properties, filters) ==
    [tag |-> "Update", handle |-> handle, typeName |-> typeName, features |-> <<>>,
     properties |-> properties, filters |-> filters]

Delete(handle, typeName, filters) ==
    [tag |-> "Delete", handle |-> handle, typeName |-> typeName, features |-> <<>>,
     properties |-> <<>>, filters |-> filters]

Named == {<<"area_name", "A">>}
GoodPoint == InsertFeature("points", TRUE, <<"gml1">>, Named)

InsertActions ==
    { Insert("h1", <<GoodPoint>>),
      Insert(None, <<GoodPoint, InsertFeature("polygons", TRUE, <<"gml1">>, Named)>>),
      Insert(None, <<InsertFeature("lines", TRUE, <<"gml1">>, Named)>>),
      Insert("h1", <<InsertFeature("points", TRUE, <<"gml1", "gml2">>, Named)>>),
      Insert(None, <<InsertFeature("points", TRUE, <<>>, Named)>>),
      Insert("h1", <<InsertFeature("points", TRUE, <<"gml1">>,
                                   {<<"description", "d">>, <<"area_name", None>>})>>),
      Insert(None, <<InsertFeature("points", FALSE, <<>>, Named)>>),
      Insert(None, <<>>) }

Ids == << <<FeatureId("points.1")>> >>

UpdateActions ==
    { Update("h1", "points", <<Property("area_name", <<>>, "B")>>,
             << <<FeatureId("points.1"), FeatureId("points.2")>> >>),
      Update(None, "points", <<Property("geometry", <<"gml2">>, None)>>, Ids),
      Update("h1", "points",
             <<Property("geometry", <<>>, None), Property("description", <<>>, "d")>>, Ids),
      Update(None, "points", <<Property("colour", <<>>, "red")>>, Ids),
      Update("h1", "points", <<Property("area_name", <<>>, "B")>>,
             << <<FeatureId("points.1"), OtherFilter, FeatureId("points.2")>> >>),
      Update(None, "points", <<Property("area_name", <<>>, "B")>>, << <<OtherFilter>> >>),
      Update(None, "points", <<Property("area_name", <<>>, "B")>>, <<>>),
      Update(None, "points", <<>>, Ids),
      Update(None, "points",
             <<[Property("area_name", <<>>, "B") EXCEPT !.has_value = FALSE]>>, Ids),
      Update(None, "points",
             <<[Property(None, <<>>, "B") EXCEPT !.has_name = FALSE]>>, Ids),
      Update("h1", "polygons", <<Property("area_name", <<>>, "B")>>, Ids),
      Update(None, "lines", <<Property("area_name", <<>>, "B")>>, Ids),
      Update(None, "points", <<Property("area_name", <<>>, "B")>>,
             << <<FeatureId("points.1")>>, <<FeatureId("points.2")>> >>),
      Update("h1", "points",
             <<Property("geometry", <<>>, None), Property("geometry", <<"gml2">>, None)>>,
             Ids),
      Update(None, "points",
             <<Property("geometry", <<"gml1">>, None),
               Property("geometry", <<"gml1", "gml2">>, None),
               Property("area_name", <<>>, "B")>>,
             << <<FeatureId("points.1"), FeatureId("points.2")>> >>),
      Update("h1", "points",
             <<Property("colour", <<>>, "red"), Property("description", <<>>, "d"),
               Property("area_name", <<>>, "A"), Property("area_name", <<>>, "B")>>,
             << <<FeatureId("points.2"), FeatureId("points.1")>> >>) }

DeleteActions ==
    { Delete("h1", "points", Ids),
      Delete(None, "points", << <<OtherFilter>> >>),
      Delete("h1", "points", << <<OtherFilter, FeatureId("points.1")>> >>),
      Delete("h1", "points", << <<FeatureId("points.1"), OtherFilter>> >>),
      Delete(None, "points", <<>>),
      Delete(None, "polygons", << <<OtherFilter>> >>),
      Delete(None, "lines", Ids),
      Delete(None, "points", << <<FeatureId("points.1")>>, <<FeatureId("points.2")>> >>),
      Delete(None, "points", << <<>> >>) }

OtherActions ==
    { [tag |-> "Native", handle |-> "h1", typeName |-> "", features |-> <<>>,
       properties |-> <<>>, filters |-> <<>>] }

Actions == InsertActions \cup UpdateActions \cup DeleteActions \cup OtherActions

MaxActions == 2

RECURSIVE SeqsUpTo(_, _)
\* the sequences over S of length at most n
SeqsUpTo(S, n) ==
    IF n = 0 THEN {<<>>}
    ELSE LET shorter == SeqsUpTo(S, n - 1)
         IN  shorter \cup {Append(q, x) : q \in shorter, x \in S}

Bodies ==
    {[root |-> "Transaction", actions |-> a] : a \in SeqsUpTo(Actions, MaxActions)}
        \cup {[root |-> "GetFeature", actions |-> <<>>],
              [root |-> "Malformed", actions |-> <<>>]}

\* the bodies of the requests that exercise the gateway
GatewayBodies ==
    {[root |-> "Transaction", actions |-> a] :
        a \in {<<>>, <<Insert("h1", <<GoodPoint>>)>>}}
        \cup {[root |-> "GetFeature", actions |-> <<>>]}

\* what get_all_features may return
Feature(feature_id, geometry, field_data) ==
    [feature_id |-> feature_id, geometry |-> geometry, field_data |-> field_data]

FeatureLists ==
    { <<>>,
      <<Feature("points.1", "gml1", Named)>>,
      <<Feature("points.1", "gml1", Named),
        Feature("points.2", "gml2", {<<"area_name", "B">>, <<"colour", "red">>})>> }

\* what commit_transaction may return: the inserted items carry the feature ids
\* points.1, points.2, ... in order and any handles
MaxInserted == 3
MaxOther == 2

Inserted(handles) ==
    [i \in 1..Len(handles) |->
        CommitOutcomeItem(IF i = 1 THEN "points.1" ELSE IF i = 2 THEN "points.2"
                          ELSE "points.3", "points", handles[i])]

Items(data, n) == [i \in 1..n |-> CommitOutcomeItem(data, "points", None)]

Outcomes ==
    {TransactionOutcome(Inserted(h), Items("points.7", u), Items("points.8", d),
                        Items("commit failed", f)) :
        h \in SeqsUpTo({None, "h1"}, MaxInserted),
        u \in 0..MaxOther, d \in 0..MaxOther, f \in 0..MaxOther}

\* the bodies of the requests that exercise the response: none, one and two read
\* failures, with and without features to commit
ResponseBodies ==
    {[root |-> "Transaction", actions |-> a] :
        a \in { <<>>,
                <<Insert("h1", <<GoodPoint>>)>>,
                <<Delete(None, "points", << <<OtherFilter>> >>)>>,
                <<Insert("h1", <<GoodPoint>>), Delete(None, "polygons", Ids)>>,
                <<Update("h1", "points", <<Property("geometry", <<>>, None)>>,
                         << <<FeatureId("points.1"), OtherFilter>> >>)>> }}

GatewayOutcomes ==
    {TransactionOutcome(Inserted(<<"h1">>), <<>>, <<>>, <<>>),
     TransactionOutcome(<<>>, <<>>, <<>>, Items("commit failed", 1))}

(***************************************************************************)
(* The WFS machine.                                                        *)
(***************************************************************************)
NoRequest == [method |-> None, args |-> <<>>]
NoBody == [root |-> None, actions |-> <<>>]
NoOutcome == TransactionOutcome(<<>>, <<>>, <<>>, <<>>)
NoCode == 0

WfsInit ==
    /\ pc = "idle"
    /\ request = NoRequest
    /\ child = NoVersion
    /\ raised = None
    /\ capability_handler = None
    /\ calls = <<>>
    /\ layer_arg = <<>>
    /\ features = <<>>
    /\ content = NoBody
    /\ transaction = <<>>
    /\ transaction_outcome = NoOutcome
    /\ response_doc = NoDoc
    /\ response_code = NoCode
    /\ written = 0
    /\ finished = 0

\* a request arrives
Receive(R) ==
    /\ pc = "idle"
    /\ \E r \in R : request' = r
    /\ pc' = "resolve"
    /\ UNCHANGED <<child, raised, capability_handler, calls, layer_arg, features,
                   content, transaction, transaction_outcome, response_doc,
                   response_code, written, finished>>
    /\ UNCHANGED exceptWfs

\* the request is over and dropped: the site serves the next one
Close ==
    /\ pc = "done"
    /\ pc' = "idle"
    /\ request' = NoRequest
    /\ child' = NoVersion
    /\ raised' = None
    /\ capability_handler' = None
    /\ calls' = <<>>
    /\ layer_arg' = <<>>
    /\ features' = <<>>
    /\ content' = NoBody
    /\ transaction' = <<>>
    /\ transaction_outcome' = NoOutcome
    /\ response_doc' = NoDoc
    /\ response_code' = NoCode
    /\ written' = 0
    /\ finished' = 0
    /\ UNCHANGED exceptWfs

\* WfsResource.getChildWithDefault: an exception it raises is the framework's to
\* answer, the rendering wrapper is not entered
Resolve ==
    /\ pc = "resolve"
    /\ LET got == getChildWithDefault(request)
       IN  /\ child' = got.version
           /\ raised' = got.raised
           /\ pc' = IF got.raised = None THEN "render" ELSE "done"
    /\ UNCHANGED <<request, capability_handler, calls, layer_arg, features, content,
                   transaction, transaction_outcome, response_doc, response_code,
                   written, finished>>
    /\ UNCHANGED exceptWfs

\* the except clause leaves the request open
WrapperFails_unfinished(exc) ==
    /\ raised' = exc
    /\ response_code' = 500
    /\ pc' = "done"
    /\ UNCHANGED <<written, response_doc, finished>>

\* deferred_rendering_fn, the except clause: log, 500, finish
WrapperFails(exc) ==
    /\ raised' = exc
    /\ response_code' = 500
    /\ finished' = finished + 1
    /\ pc' = "done"
    /\ UNCHANGED <<written, response_doc>>

\* the end of render and of deferred_rendering_fn: header, 200, write, finish
WrapperWrites(doc) ==
    /\ response_doc' = doc
    /\ response_code' = 200
    /\ written' = written + 1
    /\ finished' = finished + 1
    /\ pc' = "done"
    /\ UNCHANGED raised

\* WfsOnePointZeroResource.render: the handler is chosen and runs to its first
\* suspension, the call of layer_definitions
Render ==
    /\ pc = "render"
    /\ LET got == dispatch(request)
       IN  IF got.raised /= None
           THEN /\ WrapperFails(got.raised)
                /\ UNCHANGED <<capability_handler, calls>>
           ELSE /\ capability_handler' = got.capability
                /\ calls' = Append(calls, "layer_definitions")
                /\ pc' = "layer_definitions"
                /\ UNCHANGED <<raised, response_doc, response_code, written, finished>>
    /\ UNCHANGED <<request, child, layer_arg, features, content, transaction,
                   transaction_outcome>>
    /\ UNCHANGED exceptWfs

\* a FeatureServer method fails: the handler raises into the wrapper
FeatureServerFails ==
    /\ pc \in {"layer_definitions", "get_all_features", "commit_transaction"}
    /\ WrapperFails("FeatureServerError")
    /\ UNCHANGED <<request, child, capability_handler, calls, layer_arg, features,
                   content, transaction, transaction_outcome>>
    /\ UNCHANGED exceptWfs

\* GetCapabilitiesCapabilityHandler.handle, from the layer definitions on
GetCapabilities ==
    /\ pc = "layer_definitions"
    /\ capability_handler = "GetCapabilities"
    /\ WrapperWrites(WFS_Capabilities(LayerDefinitions))
    /\ UNCHANGED <<request, child, capability_handler, calls, layer_arg, features,
                   content, transaction, transaction_outcome>>
    /\ UNCHANGED exceptWfs

\* DescribeFeatureTypeCapabilityHandler.handle, from the layer definitions on
DescribeFeatureType ==
    /\ pc = "layer_definitions"
    /\ capability_handler = "DescribeFeatureType"
    /\ WrapperWrites(schema(LayerDefinitions, LowerArgs(request.args)))
    /\ UNCHANGED <<request, child, capability_handler, calls, layer_arg, features,
                   content, transaction, transaction_outcome>>
    /\ UNCHANGED exceptWfs

\* an unknown typename falls back to the first layer
requested_layer_or_first(layer_definitions, args) ==
    LET layer_def ==
            LayerNamed(layer_definitions, first(DictGet(args, "typename", <<>>), ""))
    IN  IF layer_def = NoLayer THEN layer_definitions[1] ELSE layer_def

\* the layer GetFeature asks the features of
requested_layer(layer_definitions, args) ==
    LayerNamed(layer_definitions, first(DictGet(args, "typename", <<>>), ""))

\* GetFeatureCapabilityHandler.handle, from the layer definitions to the call of
\* get_all_features
GetFeature ==
    /\ pc = "layer_definitions"
    /\ capability_handler = "GetFeature"
    /\ LET layer_def == requested_layer(LayerDefinitions, LowerArgs(request.args))
       IN  IF layer_def = NoLayer
           THEN /\ WrapperFails("InvalidWfsRequest")
                /\ UNCHANGED <<calls, layer_arg>>
           ELSE /\ calls' = Append(calls, "get_all_features")
                /\ layer_arg' = Append(layer_arg, layer_def.name)
                /\ pc' = "get_all_features"
                /\ UNCHANGED <<raised, response_doc, response_code, written, finished>>
    /\ UNCHANGED <<request, child, capability_handler, features, content, transaction,
                   transaction_outcome>>
    /\ UNCHANGED exceptWfs

\* GetFeatureCapabilityHandler.handle, from the features on
GetFeatureRespond ==
    /\ pc = "get_all_features"
    /\ \E feats \in FeatureLists :
        /\ features' = feats
        /\ WrapperWrites(FeatureCollection(
               LayerNamed(LayerDefinitions, layer_arg[Len(layer_arg)]), feats))
    /\ UNCHANGED <<request, child, capability_handler, calls, layer_arg, content,
                   transaction, transaction_outcome>>
    /\ UNCHANGED exceptWfs

\* TransactionCapabilityHandler.handle, from the layer definitions to the call of
\* commit_transaction: the body is read and every action parsed
TransactionRead(B) ==
    /\ pc = "layer_definitions"
    /\ capability_handler = "Transaction"
    /\ \E wfs_transaction \in B :
        LET read == read_transaction(LayerDefinitions, wfs_transaction)
        IN  /\ content' = wfs_transaction
            /\ IF read.raised /= None
               THEN /\ WrapperFails(read.raised)
                    /\ UNCHANGED <<calls, transaction>>
               ELSE /\ calls' = Append(calls, "commit_transaction")
                    /\ transaction' = Append(transaction, Transaction(read))
                    /\ pc' = "commit_transaction"
                    /\ UNCHANGED <<raised, response_doc, response_code, written,
                                   finished>>
    /\ UNCHANGED <<request, child, capability_handler, layer_arg, features,
                   transaction_outcome>>
    /\ UNCHANGED exceptWfs

\* TransactionCapabilityHandler.handle, from the outcome on
TransactionRespond(O) ==
    /\ pc = "commit_transaction"
    /\ \E outcome \in O :
        /\ transaction_outcome' = outcome
        /\ WrapperWrites(TransactionResponse(
               transaction[Len(transaction)].read_transaction_failures, outcome))
    /\ UNCHANGED <<request, child, capability_handler, calls, layer_arg, features,
                   content, transaction>>
    /\ UNCHANGED exceptWfs

(***************************************************************************)
(* fosafp.py: the feature members of a GetFeature response.                *)
(*                                                                         *)
(* A backend record is [tid, has_geofield, geofield]; geofield is the list *)
(* of its geometry entries, each [geo_type, geom]. A result that may be    *)
(* Python's None is a sequence of at most one element.                     *)
(***************************************************************************)
\* FEATURE_MEMBER_GEO_TYPES.get(type_name, None)
FEATURE_MEMBER_GEO_TYPES(type_name) ==
    CASE type_name = "farm_os_features_point" -> "point"
      [] type_name = "farm_os_features_polygon" -> "polygon"
      [] type_name = "farm_os_features_line_string" -> "linestring"
      [] OTHER -> None

featureMember(type_name, feature) ==
    [type_name |-> type_name, geometry |-> feature.geofield[1].geom,
     id |-> <<type_name, feature.tid>>]

\* the number of geometry entries is not looked at
to_feature_member_first_geometry(type_name, feature) ==
    LET geofield == IF feature.has_geofield THEN feature.geofield ELSE <<>>
        expected_geo_type == FEATURE_MEMBER_GEO_TYPES(type_name)
    IN  IF Len(geofield) = 0 THEN <<>>
        ELSE IF expected_geo_type = None THEN <<>>
        ELSE IF geofield[1].geo_type /= expected_geo_type THEN <<>>
        ELSE <<featureMember(type_name, feature)>>

\* to_feature_member
to_feature_member(type_name, feature) ==
    LET geofield == IF feature.has_geofield THEN feature.geofield ELSE <<>>
        expected_geo_type == FEATURE_MEMBER_GEO_TYPES(type_name)
    IN  IF Len(geofield) /= 1 THEN <<>>
        ELSE IF expected_geo_type = None THEN <<>>
        ELSE IF geofield[1].geo_type /= expected_geo_type THEN <<>>
        ELSE <<featureMember(type_name, feature)>>

RECURSIVE to_type_filtered_feature_members(_, _)
\* to_type_filtered_feature_members: map, then filter out None
to_type_filtered_feature_members(type_name, feats) ==
    IF Len(feats) = 0 THEN <<>>
    ELSE to_feature_member(type_name, Head(feats))
            \o to_type_filtered_feature_members(type_name, Tail(feats))

Geo(geo_type) == [geo_type |-> geo_type, geom |-> geo_type]

Geofields ==
    { <<>>, <<Geo("point")>>, <<Geo("polygon")>>, <<Geo("linestring")>>,
      <<Geo("point"), Geo("point")>>, <<Geo("polygon"), Geo("point")>> }

MaxAreas == 3

\* the listings of the backend: the record at position i has tid i; a first record
\* without geometry entries has no geofield key at all
AreaLists ==
    UNION {
        {[i \in 1..n |-> [tid |-> i, has_geofield |-> ~(i = 1 /\ g[i] = <<>>),
                          geofield |-> g[i]]] : g \in [1..n -> Geofields]}
        : n \in 0..MaxAreas }

TypeNames ==
    {"farm_os_features_point", "farm_os_features_polygon",
     "farm_os_features_line_string", "farm_os_features_area"}

FmInit ==
    /\ fm_pc = "idle"
    /\ fm_type_name = None
    /\ fm_areas = <<>>
    /\ fm_members = <<>>

\* FarmOsAreaFeatureProxy._get_feature, to the call of area.get_all(): without a
\* typename argument args.get(b'typename')[0] raises
FmGetFeature ==
    /\ fm_pc = "idle"
    /\ \E type_name \in TypeNames \cup {None} :
        /\ fm_type_name' = type_name
        /\ fm_pc' = IF type_name = None THEN "failed" ELSE "get_all"
    /\ UNCHANGED <<fm_areas, fm_members>>
    /\ UNCHANGED exceptFm

\* area.get_all() fails: _get_feature raises
FmGetAllFails ==
    /\ fm_pc = "get_all"
    /\ fm_pc' = "failed"
    /\ UNCHANGED <<fm_type_name, fm_areas, fm_members>>
    /\ UNCHANGED exceptFm

\* FarmOsAreaFeatureProxy._get_feature, from the areas on
FmRespond ==
    /\ fm_pc = "get_all"
    /\ \E areas \in AreaLists :
        /\ fm_areas' = areas
        /\ fm_members' = to_type_filtered_feature_members(fm_type_name, areas)
    /\ fm_pc' = "done"
    /\ UNCHANGED fm_type_name
    /\ UNCHANGED exceptFm

\* the request is over
FmClose ==
    /\ fm_pc \in {"done", "failed"}
    /\ fm_pc' = "idle"
    /\ fm_type_name' = None
    /\ fm_areas' = <<>>
    /\ fm_members' = <<>>
    /\ UNCHANGED exceptFm

FmNext == FmGetFeature \/ FmGetAllFails \/ FmRespond \/ FmClose

(***************************************************************************)
(* tx_drupal_rest_ws_client.py: TxDrupalRestWsClient._ensure_authenticated.*)
(*                                                                         *)
(* Each caller is one call of an authenticated operation on one client.    *)
(* Twisted runs a generator up to its first unfired Deferred, and          *)
(* DeferredLock.release() calls the next waiter at once: a step of the     *)
(* model runs every caller it wakes up to that caller's next suspension.   *)
(* The state such a step threads through is the record                     *)
(* [pc, locked, waiting, posts].                                           *)
(***************************************************************************)
NumCallers == 3
Callers == 1..NumCallers

\* the check before the lock: a token is there and has not run out
session_current(token, valid) == token /= None /\ valid

\* the check is not repeated under the lock
recheck_skipped(token, valid) == FALSE

\* the same check, repeated once the lock is held
recheck_current(token, valid) == token /= None /\ valid

\* the lock is freed and the callers waiting on it are left waiting
release_without_waiters(st, token, valid) == [st EXCEPT !.locked = FALSE]

RECURSIVE locked_section(_, _, _, _)
RECURSIVE release(_, _, _)
\* DeferredLock.release(): the first waiter, if any, is given the lock and runs
release(st, token, valid) ==
    IF Len(st.waiting) = 0 THEN [st EXCEPT !.locked = FALSE]
    ELSE locked_section([st EXCEPT !.waiting = Tail(@)], Head(st.waiting), token, valid)

\* the try block, entered by caller c with the lock held: return at once when the
\* session is current (finally: release), else send the login POST and suspend
locked_section(st, c, token, valid) ==
    IF recheck_current(token, valid)
    THEN release([st EXCEPT !.pc[c] = "done"], token, valid)
    ELSE [st EXCEPT !.pc[c] = "login", !.posts = @ + 1]

\* the lock is not looked at
acquire_unlocked(st, c, token, valid) ==
    locked_section([st EXCEPT !.locked = TRUE], c, token, valid)

\* DeferredLock.acquire(): granted at once when free, else the caller queues
acquire(st, c, token, valid) ==
    IF ~st.locked
    THEN locked_section([st EXCEPT !.locked = TRUE], c, token, valid)
    ELSE [st EXCEPT !.waiting = Append(@, c), !.pc[c] = "waiting"]

\* DeferredLock.release() while a token is stored and _session_expiry is not: each
\* waiter in turn is given the lock, raises AttributeError on its re-check and
\* releases the lock in its finally
release_to_raise(st) ==
    [st EXCEPT !.pc = [c \in DOMAIN st.pc |->
                          IF \E i \in DOMAIN st.waiting : st.waiting[i] = c
                          THEN "failed" ELSE st.pc[c]],
               !.waiting = <<>>, !.locked = FALSE]

SessionState ==
    [pc |-> s_pc, locked |-> lock_locked, waiting |-> lock_waiting,
     posts |-> login_posts]

\* the new state of the callers and the lock
SessionBecomes(st) ==
    /\ s_pc' = st.pc
    /\ lock_locked' = st.locked
    /\ lock_waiting' = st.waiting
    /\ login_posts' = st.posts

SessionInit ==
    /\ s_pc = [c \in Callers |-> "idle"]
    /\ csrf_token = None
    /\ session_valid = FALSE
    /\ lock_locked = FALSE
    /\ lock_waiting = <<>>
    /\ login_posts = 0
    /\ token_gets = 0
    /\ s_failures = 0
    /\ s_expired = 0
    /\ s_batch = TRUE
    /\ s_answers = [c \in Callers |-> <<>>]
    /\ s_stored = [token |-> 0, expiry |-> 0]

\* a caller enters _ensure_authenticated
EnsureAuthenticated(c) ==
    /\ s_pc[c] = "idle"
    /\ s_batch' = (/\ s_batch
                   /\ ~session_current(csrf_token, session_valid)
                   /\ \A d \in Callers : s_pc[d] \notin {"done", "failed"})
    /\ IF csrf_token /= None /\ s_stored.expiry = 0
       THEN \* self._session_expiry does not exist: AttributeError
            SessionBecomes([SessionState EXCEPT !.pc[c] = "failed"])
       ELSE IF session_current(csrf_token, session_valid)
       THEN SessionBecomes([SessionState EXCEPT !.pc[c] = "done"])
       ELSE SessionBecomes(acquire(SessionState, c, csrf_token, session_valid))
    /\ UNCHANGED <<csrf_token, session_valid, token_gets, s_failures, s_expired,
                   s_answers, s_stored>>
    /\ UNCHANGED exceptSession

\* an exception inside the try block: finally releases the lock, the call fails
SessionRaise(c) ==
    /\ SessionBecomes(release([SessionState EXCEPT !.pc[c] = "failed"],
                              csrf_token, session_valid))
    /\ s_failures' = s_failures + 1
    /\ UNCHANGED <<csrf_token, session_valid, token_gets, s_expired, s_stored>>

\* a status below 400 passes
login_accepted_below_400(code) == code \in 0..399

\* if response.code != 302: raise Exception("Login failed")
login_accepted(code) == code = 302

\* if response.code != 200: raise Exception("Session token retrieval failed")
token_accepted(code) == code = 200

\* the answer to the login POST: 302 goes on to the token GET, anything else or a
\* failed connection raises
LoginResponse(c) ==
    /\ s_pc[c] = "login"
    /\ \E code \in {302, 200, 403, -1} :
        /\ s_answers' = [s_answers EXCEPT ![c] = Append(@, code)]
        /\ IF login_accepted(code)
           THEN /\ s_pc' = [s_pc EXCEPT ![c] = "token"]
                /\ token_gets' = token_gets + 1
                /\ UNCHANGED <<csrf_token, session_valid, lock_locked, lock_waiting,
                               login_posts, s_failures, s_expired, s_stored>>
           ELSE SessionRaise(c)
    /\ UNCHANGED s_batch
    /\ UNCHANGED exceptSession

\* the answer to the token GET: 200 goes on to read the body
TokenResponse(c) ==
    /\ s_pc[c] = "token"
    /\ \E code \in {200, 403, -1} :
        /\ s_answers' = [s_answers EXCEPT ![c] = Append(@, code)]
        /\ IF token_accepted(code)
           THEN /\ s_pc' = [s_pc EXCEPT ![c] = "body"]
                /\ UNCHANGED <<csrf_token, session_valid, lock_locked, lock_waiting,
                               login_posts, token_gets, s_failures, s_expired,
                               s_stored>>
           ELSE SessionRaise(c)
    /\ UNCHANGED s_batch
    /\ UNCHANGED exceptSession

\* the body is read: the token and the expiry derived from the cookies are stored, the
\* call returns and the lock is released; the expiry the cookies give may already be
\* over. A body that cannot be read raises. So does, with the token already stored,
\* _derive_session_expiry_date_time on a cookie whose expiry datetime.fromtimestamp
\* cannot represent: _session_expiry stays what it was, or stays unset.
BodyRead(c) ==
    /\ s_pc[c] = "body"
    /\ \/ \E valid \in BOOLEAN :
            /\ csrf_token' = "token"
            /\ session_valid' = valid
            /\ s_stored' = [token |-> login_posts, expiry |-> login_posts]
            /\ s_expired' = IF valid THEN s_expired ELSE s_expired + 1
            /\ SessionBecomes(release([SessionState EXCEPT !.pc[c] = "done"],
                                      "token", valid))
            /\ UNCHANGED <<token_gets, s_failures>>
       \/ SessionRaise(c)
       \/ /\ csrf_token' = "token"
          /\ s_stored' = [s_stored EXCEPT !.token = login_posts]
          /\ SessionBecomes(
                 IF s_stored.expiry = 0
                 THEN release_to_raise([SessionState EXCEPT !.pc[c] = "failed"])
                 ELSE release([SessionState EXCEPT !.pc[c] = "failed"],
                              "token", session_valid))
          /\ s_failures' = s_failures + 1
          /\ UNCHANGED <<session_valid, token_gets, s_expired>>
    /\ UNCHANGED <<s_batch, s_answers>>
    /\ UNCHANGED exceptSession

\* time passes _session_expiry
Expire ==
    /\ csrf_token /= None
    /\ session_valid
    /\ session_valid' = FALSE
    /\ s_expired' = s_expired + 1
    /\ UNCHANGED <<s_pc, csrf_token, lock_locked, lock_waiting, login_posts,
                   token_gets, s_failures, s_batch, s_answers, s_stored>>
    /\ UNCHANGED exceptSession

(***************************************************************************)
(* tx_drupal_rest_ws_client.py: the entity operations.                     *)
(*                                                                         *)
(* Caller c's operation is call c of _ensure_authenticated followed, when  *)
(* that call returns, by one request to the backend; NumEntityCalls of the *)
(* callers run an operation at the same time. An answer is a status        *)
(* code with a body that can be read and parsed; NoAnswer stands for a     *)
(* request that fails or whose body cannot be read.                        *)
(***************************************************************************)
NumEntityCalls == 2
EntityCallers == {c \in Callers : c <= NumEntityCalls}
EntityOperations == {"get_entity", "get_entities", "create_entity", "update_entity", "delete_entity"}
NoAnswer == -1
NoEvent == [kind |-> None]

\* every operation wants a 200
expected_status_200(op) == 200

\* the status each operation tests its response for
expected_status(op) == IF op = "create_entity" THEN 201 ELSE 200

\* the headers are built whether or not _ensure_authenticated raised
headers_built_anyway(position) == position \in {"done", "failed"}

\* headers = yield self.get_authenticated_headers(): the operation goes on when
\* _ensure_authenticated has returned; an exception leaves the operation
headers_built(position) == position = "done"

EntityInit ==
    /\ e_pc = [c \in Callers |-> "idle"]
    /\ e_op = [c \in Callers |-> None]
    /\ e_requests = [c \in Callers |-> 0]
    /\ e_event = NoEvent

\* the session check of caller c's operation is over: the headers are built with
\* the stored token and the request is sent, or the exception is raised to the caller
EntityRequest(c) ==
    /\ e_pc[c] = "idle"
    /\ s_pc[c] \in {"done", "failed"}
    /\ \E op \in EntityOperations :
        IF headers_built(s_pc[c])
        THEN /\ e_pc' = [e_pc EXCEPT ![c] = "sent"]
             /\ e_op' = [e_op EXCEPT ![c] = op]
             /\ e_requests' = [e_requests EXCEPT ![c] = @ + 1]
             /\ e_event' = [kind |-> "request", caller |-> c, op |-> op,
                            token |-> csrf_token, checked |-> s_pc[c]]
        ELSE /\ e_pc' = [e_pc EXCEPT ![c] = "raised"]
             /\ e_event' = [kind |-> "raise", caller |-> c, op |-> op]
             /\ UNCHANGED <<e_op, e_requests>>
    /\ UNCHANGED exceptEntity

\* the backend's answer to caller c's request: the operation returns when the
\* status is the one it expects, and raises otherwise
EntityResponse(c) ==
    /\ e_pc[c] = "sent"
    /\ \E code \in {200, 201, 404, NoAnswer} :
        /\ e_pc' = [e_pc EXCEPT ![c] = IF code = expected_status(e_op[c])
                                       THEN "returned" ELSE "raised"]
        /\ e_event' = [kind |-> "answer", caller |-> c, op |-> e_op[c], code |-> code]
    /\ e_op' = [e_op EXCEPT ![c] = None]
    /\ UNCHANGED e_requests
    /\ UNCHANGED exceptEntity

\* The operation resumes in the very turn in which its _ensure_authenticated is
\* over: nothing else happens before the request is sent or the exception raised.
Resumed == \A c \in Callers : s_pc[c] \in {"done", "failed"} => e_pc[c] /= "idle"

EntityNext ==
    \/ \E c \in EntityCallers : Resumed /\ EnsureAuthenticated(c)
    \/ \E c \in EntityCallers : Resumed /\ LoginResponse(c)
    \/ \E c \in EntityCallers : Resumed /\ TokenResponse(c)
    \/ \E c \in EntityCallers : Resumed /\ BodyRead(c)
    \/ \E c \in EntityCallers : EntityRequest(c)
    \/ \E c \in EntityCallers : Resumed /\ EntityResponse(c)

SessionNext ==
    \/ \E c \in Callers : EnsureAuthenticated(c)
    \/ \E c \in Callers : LoginResponse(c)
    \/ \E c \in Callers : TokenResponse(c)
    \/ \E c \in Callers : BodyRead(c)
    \/ Expire

(***************************************************************************)
(* tx_drupal_rest_ws_client.py: TxDrupalEntityPage.                        *)
(*                                                                         *)
(* The page objects live in pg_pages and refer to each other by position;  *)
(* NoPage is Python's None. The backend has pg_count pages for the         *)
(* listing, numbered from 0, and names the last of them in every answer.   *)
(***************************************************************************)
MaxPages == 4
NoPage == 0

\* the records of page n of a listing of page_count pages; a page past the last one
\* is empty
BackendList(page_count, n) ==
    IF n < page_count THEN << <<n, "a">>, <<n, "b">> >> ELSE <<>>

\* the answer's link to the last page is not read
TxDrupalEntityPage_without_last(page, page_count, prev_page_ref, next_page_ref) ==
    [page_num |-> page, max_page_num |-> 0,
     list |-> BackendList(page_count, page),
     prev_page_ref |-> prev_page_ref, next_page_ref |-> next_page_ref]

\* TxDrupalEntityPage.__init__: page_num from the filters, _max_page_num from the
\* answer's link to the last page
TxDrupalEntityPage(page, page_count, prev_page_ref, next_page_ref) ==
    [page_num |-> page, max_page_num |-> page_count - 1,
     list |-> BackendList(page_count, page),
     prev_page_ref |-> prev_page_ref, next_page_ref |-> next_page_ref]

getattr(page, page_ref_var) ==
    IF page_ref_var = "next_page_ref" THEN page.next_page_ref ELSE page.prev_page_ref

setattr(page, page_ref_var, value) ==
    IF page_ref_var = "next_page_ref" THEN [page EXCEPT !.next_page_ref = value]
    ELSE [page EXCEPT !.prev_page_ref = value]

\* the page that is left is never kept
this_page_ref_forgotten(forgetful, self) == NoPage

\* this_page_ref = None if forgetful else self
this_page_ref(forgetful, self) == IF forgetful THEN NoPage ELSE self

\* TxDrupalEntityPage._get_page on the page object self; answered tells whether the
\* backend answered the request with code 200
get_page(pages, self, target, forgetful, page_ref_var, back_ref_var, last, answered) ==
    LET me == pages[self]
        target_page_ref == getattr(me, page_ref_var)
        asked == me.page_num + 1
        made == setattr(TxDrupalEntityPage(asked, last, NoPage, NoPage),
                        back_ref_var, this_page_ref(forgetful, self))
    IN  IF target < 0 \/ target > me.max_page_num
        THEN [pages |-> pages, result |-> NoPage, asked |-> <<>>, raised |-> None]
        ELSE IF target_page_ref /= NoPage
        THEN [pages |-> pages, result |-> target_page_ref, asked |-> <<>>,
              raised |-> None]
        ELSE IF ~answered
        THEN [pages |-> pages, result |-> NoPage, asked |-> <<asked>>,
              raised |-> "Exception"]
        ELSE [pages |-> Append([pages EXCEPT ![self] =
                                   setattr(@, page_ref_var, Len(pages) + 1)], made),
              result |-> Len(pages) + 1, asked |-> <<asked>>, raised |-> None]

next_page(pages, self, forgetful, page_count, answered) ==
    get_page(pages, self, pages[self].page_num + 1, forgetful,
             "next_page_ref", "prev_page_ref", page_count, answered)

prev_page(pages, self, forgetful, page_count, answered) ==
    get_page(pages, self, pages[self].page_num - 1, forgetful,
             "prev_page_ref", "next_page_ref", page_count, answered)

PageInit ==
    /\ pg_pc = "idle"
    /\ pg_count = 0
    /\ pg_pages = <<>>
    /\ pg_cur = NoPage
    /\ pg_trail = <<>>
    /\ pg_retained = TRUE
    /\ pg_fetches = <<>>

\* get_entities: the first page of a listing
GetEntities ==
    /\ pg_pc = "idle"
    /\ \E page_count \in 1..MaxPages :
        /\ pg_count' = page_count
        /\ pg_pages' = <<TxDrupalEntityPage(0, page_count, NoPage, NoPage)>>
    /\ pg_cur' = 1
    /\ pg_trail' = << <<"forward", 1>> >>
    /\ pg_fetches' = <<0>>
    /\ pg_pc' = "forward"
    /\ UNCHANGED pg_retained
    /\ UNCHANGED exceptPage

\* one step of the walk: got is the outcome of next_page or prev_page on the current
\* page; a walk that gets None turns round, or ends
Walk(got, direction, turned) ==
    /\ pg_pages' = got.pages
    /\ pg_fetches' = pg_fetches \o got.asked
    /\ IF got.raised /= None
       THEN /\ pg_pc' = "failed"
            /\ UNCHANGED <<pg_cur, pg_trail>>
       ELSE IF got.result = NoPage
       THEN /\ pg_pc' = turned
            /\ pg_trail' = IF turned = "backward"
                           THEN Append(pg_trail, <<"backward", pg_cur>>)
                           ELSE pg_trail
            /\ UNCHANGED pg_cur
       ELSE /\ pg_cur' = got.result
            /\ pg_trail' = Append(pg_trail, <<direction, got.result>>)
            /\ UNCHANGED pg_pc

\* the walk calls next_page on the page it is on
NextPage ==
    /\ pg_pc = "forward"
    /\ \E forgetful \in BOOLEAN, answered \in BOOLEAN :
        /\ Walk(next_page(pg_pages, pg_cur, forgetful, pg_count, answered),
                "forward", "backward")
        /\ pg_retained' = (pg_retained /\ ~forgetful)
    /\ UNCHANGED pg_count
    /\ UNCHANGED exceptPage

\* the walk calls prev_page on the page it is on
PrevPage ==
    /\ pg_pc = "backward"
    /\ \E forgetful \in BOOLEAN, answered \in BOOLEAN :
        Walk(prev_page(pg_pages, pg_cur, forgetful, pg_count, answered),
             "backward", "done")
    /\ UNCHANGED <<pg_count, pg_retained>>
    /\ UNCHANGED exceptPage

\* the walk is over, its pages are dropped
PageClose ==
    /\ pg_pc \in {"done", "failed"}
    /\ pg_pc' = "idle"
    /\ pg_count' = 0
    /\ pg_pages' = <<>>
    /\ pg_cur' = NoPage
    /\ pg_trail' = <<>>
    /\ pg_retained' = TRUE
    /\ pg_fetches' = <<>>
    /\ UNCHANGED exceptPage

PageNext == GetEntities \/ NextPage \/ PrevPage \/ PageClose

(***************************************************************************)
(* A traversal that calls next_page and prev_page in any order, and        *)
(* get_all_entities.                                                       *)
(*                                                                         *)
(* A traversal makes at most MaxCalls calls. Every answer of the backend   *)
(* names the last page of the listing: the same one throughout a steady    *)
(* listing, any one when the listing changes while it is traversed.        *)
(***************************************************************************)
MaxCalls == 4
NoStep == [on |-> NoPage]

\* def has_prev_page(self): return self.page_num > 0
has_prev_page(page) == page.page_num > 0

\* def has_next_page(self): return self.page_num < self._max_page_num
has_next_page(page) == page.page_num < page.max_page_num

WalkInit ==
    /\ w_calls = 0
    /\ w_step = NoStep
    /\ all_pc = "idle"
    /\ all_sizes = <<>>
    /\ all_entities = <<>>
    /\ all_returned = <<>>

\* next_page or prev_page is called on the page the traversal is on; the traversal
\* moves to the page it gets, stays where it is when it gets None, and ends when
\* the call raises
Traverse(steady) ==
    /\ pg_pc \in {"forward", "backward"}
    /\ all_pc = "idle"
    /\ w_calls < MaxCalls
    /\ \E direction \in {"forward", "backward"}, forgetful \in BOOLEAN,
          answered \in BOOLEAN,
          page_count \in IF steady THEN {pg_count} ELSE 1..MaxPages :
        LET got == IF direction = "forward"
                   THEN next_page(pg_pages, pg_cur, forgetful, page_count, answered)
                   ELSE prev_page(pg_pages, pg_cur, forgetful, page_count, answered)
            page_ref_var == IF direction = "forward" THEN "next_page_ref"
                            ELSE "prev_page_ref"
        IN  /\ pg_pages' = got.pages
            /\ pg_fetches' = pg_fetches \o got.asked
            /\ w_step' = [on |-> pg_cur, direction |-> direction,
                          forgetful |-> forgetful,
                          held |-> getattr(pg_pages[pg_cur], page_ref_var),
                          asked |-> got.asked,
                          last |-> IF got.asked /= <<>> /\ got.raised = None
                                   THEN <<page_count - 1>> ELSE <<>>,
                          result |-> got.result, raised |-> got.raised]
            /\ pg_retained' = (pg_retained /\ ~forgetful)
            /\ IF got.raised /= None
               THEN /\ pg_pc' = "failed"
                    /\ UNCHANGED <<pg_cur, pg_trail>>
               ELSE IF got.result = NoPage
               THEN UNCHANGED <<pg_pc, pg_cur, pg_trail>>
               ELSE /\ pg_pc' = direction
                    /\ pg_cur' = got.result
                    /\ pg_trail' = Append(pg_trail, <<direction, got.result>>)
    /\ w_calls' = w_calls + 1
    /\ UNCHANGED <<pg_count, all_pc, all_sizes, all_entities, all_returned>>
    /\ UNCHANGED exceptWalk

\* the traversal is over, its pages are dropped
WalkClose ==
    /\ pg_pc \in {"forward", "backward", "failed"}
    /\ all_pc = "idle"
    /\ w_calls > 0
    /\ pg_pc' = "idle"
    /\ pg_count' = 0
    /\ pg_pages' = <<>>
    /\ pg_cur' = NoPage
    /\ pg_trail' = <<>>
    /\ pg_retained' = TRUE
    /\ pg_fetches' = <<>>
    /\ w_calls' = 0
    /\ w_step' = NoStep
    /\ UNCHANGED <<all_pc, all_sizes, all_entities, all_returned>>
    /\ UNCHANGED exceptWalk

WalkNext == GetEntities \/ Traverse(TRUE) \/ WalkClose

\* the first size records of page n
Records(n, size) == SubSeq(<< <<n, "a">>, <<n, "b">> >>, 1, size)

\* the page built from the backend's answer for page n
Listed(page, sizes) == [page EXCEPT !.list = Records(page.page_num, sizes[page.page_num + 1])]

\* bool(page), as in "while page:": None is false, and so is a page whose __len__
\* is 0
page_is_true(pages, page) == page /= NoPage /\ Len(pages[page].list) > 0

\* get_all_entities, up to the answer to get_entities: the first page
GetAllEntities ==
    /\ pg_pc = "idle"
    /\ all_pc = "idle"
    /\ \E page_count \in 1..MaxPages :
        \E sizes \in [1..page_count -> 0..2], answered \in BOOLEAN :
            /\ pg_count' = page_count
            /\ all_sizes' = sizes
            /\ IF answered
               THEN /\ pg_pages' = <<Listed(TxDrupalEntityPage(0, page_count, NoPage,
                                                               NoPage), sizes)>>
                    /\ pg_cur' = 1
                    /\ pg_trail' = << <<"forward", 1>> >>
                    /\ all_pc' = "loop"
               ELSE /\ all_pc' = "failed"
                    /\ UNCHANGED <<pg_pages, pg_cur, pg_trail>>
    /\ pg_pc' = "forward"
    /\ pg_fetches' = <<0>>
    /\ all_entities' = <<>>
    /\ UNCHANGED <<pg_retained, w_calls, w_step, all_returned>>
    /\ UNCHANGED exceptWalk

\* one turn of "while page:": the records of the page are added and
\* next_page(forgetful=True) is called and answered, or the loop ends and the page
\* of all the records is returned
AllEntitiesPage ==
    /\ all_pc = "loop"
    /\ IF ~page_is_true(pg_pages, pg_cur)
       THEN /\ all_pc' = "done"
            /\ all_returned' = all_entities
            /\ UNCHANGED <<pg_pages, pg_cur, pg_trail, pg_retained, pg_fetches,
                           all_entities>>
       ELSE \E answered \in BOOLEAN :
            LET got == next_page(pg_pages, pg_cur, TRUE, pg_count, answered)
            IN  /\ all_entities' = all_entities \o pg_pages[pg_cur].list
                /\ pg_fetches' = pg_fetches \o got.asked
                /\ pg_retained' = FALSE
                /\ IF got.raised /= None
                   THEN /\ all_pc' = "failed"
                        /\ UNCHANGED <<pg_pages, pg_cur, pg_trail>>
                   ELSE /\ pg_cur' = got.result
                        /\ pg_pages' =
                               IF got.result = NoPage THEN got.pages
                               ELSE [got.pages EXCEPT ![got.result] = Listed(@, all_sizes)]
                        /\ pg_trail' = IF got.result = NoPage THEN pg_trail
                                       ELSE Append(pg_trail, <<"forward", got.result>>)
                        /\ UNCHANGED all_pc
                /\ UNCHANGED all_returned
    /\ UNCHANGED <<pg_pc, pg_count, w_calls, w_step, all_sizes>>
    /\ UNCHANGED exceptWalk

\* the call is over
AllClose ==
    /\ all_pc \in {"done", "failed"}
    /\ all_pc' = "idle"
    /\ all_sizes' = <<>>
    /\ all_entities' = <<>>
    /\ all_returned' = <<>>
    /\ pg_pc' = "idle"
    /\ pg_count' = 0
    /\ pg_pages' = <<>>
    /\ pg_cur' = NoPage
    /\ pg_trail' = <<>>
    /\ pg_retained' = TRUE
    /\ pg_fetches' = <<>>
    /\ UNCHANGED <<w_calls, w_step>>
    /\ UNCHANGED exceptWalk

AllNext == GetAllEntities \/ AllEntitiesPage \/ AllClose

ChangingNext == GetEntities \/ Traverse(FALSE) \/ WalkClose

(***************************************************************************)
(* The proxy feature server's "all features" cache, for one client.        *)
(*                                                                         *)
(* The cache holds at most one cell for the client: a value slot and the   *)
(* cell's own lock. A request that finds a value returns it; otherwise it  *)
(* takes the cell lock, looks again, and lists the backend once. An entry  *)
(* leaves the cache when its time window ends and after every committed    *)
(* transaction; a request that holds the cell goes on with it.             *)
(***************************************************************************)
NumReaders == 3
MaxEpochs == 2
Readers == 1..NumReaders
NoCell == 0
NewCell == [value |-> FALSE, locked |-> FALSE, waiting |-> <<>>]

\* the look under the cell lock is left out
cell_recheck_skipped(cell) == FALSE

\* the look under the cell lock: is the value there
cell_recheck(cell) == cell.value

RECURSIVE cell_locked_section(_, _, _)
RECURSIVE cell_release(_, _)
\* the cell lock is released: the first waiter, if any, gets it and runs
cell_release(st, k) ==
    IF Len(st.cells[k].waiting) = 0 THEN [st EXCEPT !.cells[k].locked = FALSE]
    ELSE cell_locked_section([st EXCEPT !.cells[k].waiting = Tail(@)],
                             k, Head(st.cells[k].waiting))

\* request r holds the lock of cell k: return the value if it is there by now, else
\* call the backend listing and suspend
cell_locked_section(st, k, r) ==
    IF cell_recheck(st.cells[k])
    THEN cell_release([st EXCEPT !.pc[r] = "done"], k)
    ELSE [st EXCEPT !.pc[r] = "listing", !.calls = Append(@, st.asked[r])]

\* the read path of the cell k for request r
cell_read(st, k, r) ==
    IF st.cells[k].value THEN [st EXCEPT !.pc[r] = "done"]
    ELSE IF ~st.cells[k].locked
    THEN cell_locked_section([st EXCEPT !.cells[k].locked = TRUE], k, r)
    ELSE [st EXCEPT !.cells[k].waiting = Append(@, r), !.pc[r] = "waiting"]

ListingState == [pc |-> lc_pc, cells |-> lc_cells, calls |-> lc_calls, asked |-> lc_asked]

ListingBecomes(st) ==
    /\ lc_pc' = st.pc
    /\ lc_cells' = st.cells
    /\ lc_calls' = st.calls
    /\ lc_asked' = st.asked

ListingInit ==
    /\ lc_pc = [r \in Readers |-> "idle"]
    /\ lc_epoch = 0
    /\ lc_asked = [r \in Readers |-> 0]
    /\ lc_held = [r \in Readers |-> NoCell]
    /\ lc_entry = NoCell
    /\ lc_cells = <<>>
    /\ lc_calls = <<>>
    /\ lc_after = "none"

\* an "all features" request of the client: the cell is looked up, or made
AllFeatures(r) ==
    /\ lc_pc[r] = "idle"
    /\ LET k == IF lc_entry = NoCell THEN Len(lc_cells) + 1 ELSE lc_entry
           cells == IF lc_entry = NoCell THEN Append(lc_cells, NewCell) ELSE lc_cells
           st == cell_read([ListingState EXCEPT !.cells = cells,
                                                !.asked[r] = lc_epoch], k, r)
       IN  /\ ListingBecomes(st)
           /\ lc_entry' = k
           /\ lc_held' = [lc_held EXCEPT ![r] = k]
           /\ lc_after' = IF lc_after /= "pending" THEN lc_after
                          ELSE IF st.pc[r] = "listing" THEN "fresh" ELSE "stale"
    /\ UNCHANGED lc_epoch
    /\ UNCHANGED exceptListing

\* the backend answers the listing: the value is stored, the lock released
ListingAnswer(r) ==
    /\ lc_pc[r] = "listing"
    /\ LET k == lc_held[r]
       IN  ListingBecomes(cell_release(
               [ListingState EXCEPT !.pc[r] = "done", !.cells[k].value = TRUE], k))
    /\ UNCHANGED <<lc_epoch, lc_held, lc_entry, lc_after>>
    /\ UNCHANGED exceptListing

\* the entry's time window ends
TtlExpire ==
    /\ lc_entry /= NoCell
    /\ lc_epoch < MaxEpochs
    /\ lc_entry' = NoCell
    /\ lc_epoch' = lc_epoch + 1
    /\ UNCHANGED <<lc_pc, lc_asked, lc_held, lc_cells, lc_calls, lc_after>>
    /\ UNCHANGED exceptListing

\* a transaction of the client has been committed: the entry is cleared
Committed ==
    /\ lc_epoch < MaxEpochs
    /\ lc_after /= "pending"
    /\ lc_entry' = NoCell
    /\ lc_epoch' = lc_epoch + 1
    /\ lc_after' = "pending"
    /\ UNCHANGED <<lc_pc, lc_asked, lc_held, lc_cells, lc_calls>>
    /\ UNCHANGED exceptListing

ListingNext ==
    \/ \E r \in Readers : AllFeatures(r)
    \/ \E r \in Readers : ListingAnswer(r)
    \/ TtlExpire
    \/ Committed

(***************************************************************************)
(* The proxy feature server's commit of a transaction.                     *)
(*                                                                         *)
(* The work items of the transaction are run with at most Ceiling backend  *)
(* calls in flight; an item that the backend fails becomes a transaction   *)
(* failure and the others go on. Ceiling stands for the default of 16.     *)
(***************************************************************************)
Ceiling == 2
MaxItems == 4
WorkKinds == {"insert", "update", "delete"}
NoCommitOutcome == [inserted |-> 0, updated |-> 0, deleted |-> 0, failures |-> 0]

InFlightItems(state) == {i \in DOMAIN state : state[i] = "inflight"}
QueuedItems(state) == {i \in DOMAIN state : state[i] = "queued"}

\* every queued item is started at once
start_items_unbounded(state) ==
    [i \in DOMAIN state |-> IF state[i] = "queued" THEN "inflight" ELSE state[i]]

RECURSIVE start_items(_)
\* queued items are started, in order, while fewer than Ceiling calls are in flight
start_items(state) ==
    IF QueuedItems(state) = {} \/ Cardinality(InFlightItems(state)) >= Ceiling
    THEN state
    ELSE LET i == CHOOSE q \in QueuedItems(state) :
                      \A o \in QueuedItems(state) : q <= o
         IN  start_items([state EXCEPT ![i] = "inflight"])

\* the failure ends the batch: what is queued is dropped
item_failed_aborts(state, i) ==
    [j \in DOMAIN state |->
        IF j = i THEN "failed" ELSE IF state[j] = "queued" THEN "dropped" ELSE state[j]]

\* the backend failed item i: caught, logged, kept as a failure of that item
item_failed(state, i) == [state EXCEPT ![i] = "failed"]

CountItems(items, state, kind, status) ==
    Cardinality({i \in DOMAIN items : items[i] = kind /\ state[i] = status})

\* the TransactionOutcome of a finished commit
commit_outcome(items, state) ==
    [inserted |-> CountItems(items, state, "insert", "ok"),
     updated |-> CountItems(items, state, "update", "ok"),
     deleted |-> CountItems(items, state, "delete", "ok"),
     failures |-> Cardinality({i \in DOMAIN state : state[i] = "failed"})]

CommitInit ==
    /\ cm_pc = "idle"
    /\ cm_items = <<>>
    /\ cm_state = <<>>
    /\ cm_outcome = NoCommitOutcome
    /\ cm_invalidated = FALSE

\* the state of the items after a step; with nothing left to run the commit is over:
\* the outcome is built and the cache entry cleared
CommitBecomes(items, state) ==
    LET over == \A i \in DOMAIN state : state[i] \notin {"queued", "inflight"}
    IN  /\ cm_state' = state
        /\ cm_pc' = IF over THEN "done" ELSE "running"
        /\ cm_outcome' = IF over THEN commit_outcome(items, state) ELSE cm_outcome
        /\ cm_invalidated' = over

\* commit_transaction is called with the work items of a transaction
CommitTransaction ==
    /\ cm_pc = "idle"
    /\ \E items \in SeqsUpTo(WorkKinds, MaxItems) :
        /\ cm_items' = items
        /\ CommitBecomes(items, start_items([i \in DOMAIN items |-> "queued"]))
    /\ UNCHANGED exceptCommit

\* the backend answers the call of item i, or fails it
ItemAnswer(i) ==
    /\ cm_pc = "running"
    /\ i \in InFlightItems(cm_state)
    /\ \E succeeded \in BOOLEAN :
        CommitBecomes(cm_items,
            start_items(IF succeeded THEN [cm_state EXCEPT ![i] = "ok"]
                        ELSE item_failed(cm_state, i)))
    /\ UNCHANGED cm_items
    /\ UNCHANGED exceptCommit

\* the outcome has been returned
CommitClose ==
    /\ cm_pc = "done"
    /\ cm_pc' = "idle"
    /\ cm_items' = <<>>
    /\ cm_state' = <<>>
    /\ cm_outcome' = NoCommitOutcome
    /\ cm_invalidated' = FALSE
    /\ UNCHANGED exceptCommit

CommitNext ==
    \/ CommitTransaction
    \/ \E i \in 1..MaxItems : ItemAnswer(i)
    \/ CommitClose

(***************************************************************************)
(* fosafp.py: FarmOsAreaFeatureProxy._create_farm_os_client.               *)
(*                                                                         *)
(* lru_cache(maxsize)(TxFarmOsClient.create) run under a DeferredLock.     *)
(* TxFarmOsClient.create returns at once (the client logs in at its first  *)
(* call), so the lock is free whenever a request asks for it and a call is *)
(* one step. The code's maxsize is 32; the model's is smaller, with more   *)
(* credentials than that. A client is the number of its creation.          *)
(***************************************************************************)
maxsize == 2
MaxClients == 5
NoClient == 0
Credentials == {<<"u1", "p1">>, <<"u1", "p2">>, <<"u2", "p1">>, <<"u2", "p2">>}

\* the client cached for the credentials, if any
Cached(cache, key) ==
    LET hits == SelectSeq(cache, LAMBDA e : e[1] = key)
    IN  IF Len(hits) = 0 THEN NoClient ELSE hits[1][2]

Without(cache, key) == SelectSeq(cache, LAMBDA e : e[1] /= key)

\* a hit leaves the entry where it is: the oldest entry is evicted
lru_cache_call_fifo(cache, key, new_client) ==
    LET hit == Cached(cache, key)
        grown == Append(cache, <<key, new_client>>)
    IN  IF hit /= NoClient
        THEN [cache |-> cache, client |-> hit, created |-> FALSE, evicted |-> None]
        ELSE IF Len(grown) > maxsize
        THEN [cache |-> Tail(grown), client |-> new_client, created |-> TRUE,
              evicted |-> Head(grown)[1]]
        ELSE [cache |-> grown, client |-> new_client, created |-> TRUE,
              evicted |-> None]

\* a call of the lru_cache wrapper: a hit becomes the most recently used entry; a
\* miss calls TxFarmOsClient.create, stores the client and, over maxsize, evicts the
\* least recently used entry
lru_cache_call(cache, key, new_client) ==
    LET hit == Cached(cache, key)
        grown == Append(cache, <<key, new_client>>)
    IN  IF hit /= NoClient
        THEN [cache |-> Append(Without(cache, key), <<key, hit>>), client |-> hit,
              created |-> FALSE, evicted |-> None]
        ELSE IF Len(grown) > maxsize
        THEN [cache |-> Tail(grown), client |-> new_client, created |-> TRUE,
              evicted |-> Head(grown)[1]]
        ELSE [cache |-> grown, client |-> new_client, created |-> TRUE,
              evicted |-> None]

NoCall ==
    [key |-> None, client |-> NoClient, created |-> FALSE, evicted |-> None,
     cached |-> NoClient, before |-> <<>>]

ClientInit ==
    /\ cc_cache = <<>>
    /\ cc_made = <<>>
    /\ cc_last = NoCall

\* a request asks for the client of its credentials
CreateFarmOsClient ==
    /\ \E key \in Credentials :
        LET got == lru_cache_call(cc_cache, key, Len(cc_made) + 1)
        IN  /\ got.created => Len(cc_made) < MaxClients
            /\ cc_cache' = got.cache
            /\ cc_made' = IF got.created THEN Append(cc_made, key) ELSE cc_made
            /\ cc_last' = [key |-> key, client |-> got.client,
                           created |-> got.created, evicted |-> got.evicted,
                           cached |-> Cached(cc_cache, key), before |-> cc_cache]
    /\ UNCHANGED exceptClient

ClientNext == CreateFarmOsClient

(***************************************************************************)
(* tx_farm_os_client.py: TxFarmOsAreaClient._get_area_vocabulary_id.       *)
(*                                                                         *)
(* Each operation is one call of create or get_by_id on one client's area  *)
(* client, at the point where it asks for the vocabulary id. The first     *)
(* yield of the function is on a fired Deferred, so a call runs on to the  *)
(* lock at once. As for the session, a step runs every caller it wakes up  *)
(* to that caller's next suspension, threading the record                  *)
(* [pc, locked, waiting, lookups, returned].                               *)
(***************************************************************************)
NumOperations == 3
Operations == 1..NumOperations

\* what the backend may answer to the lookup: the 'list' of the page, each entry
\* with its 'vid'
VocabularyLists == { <<>>, <<"vid7">>, <<"vid9", "vid7">> }

\* the id is not looked at again under the lock
vocabulary_recheck_skipped(vid) == FALSE

\* if not self._area_vocabulary_id is None, under the lock
vocabulary_recheck(vid) == vid /= None

RECURSIVE vocabulary_locked_section(_, _, _)
RECURSIVE vocabulary_release(_, _)
\* finally: self._area_vocabulary_id_lock.release()
vocabulary_release(st, vid) ==
    IF Len(st.waiting) = 0 THEN [st EXCEPT !.locked = FALSE]
    ELSE vocabulary_locked_section([st EXCEPT !.waiting = Tail(@)], Head(st.waiting), vid)

\* the try block, entered by operation o with the lock held
vocabulary_locked_section(st, o, vid) ==
    IF vocabulary_recheck(vid)
    THEN vocabulary_release([st EXCEPT !.pc[o] = "done", !.returned[o] = vid], vid)
    ELSE [st EXCEPT !.pc[o] = "lookup", !.lookups = @ + 1]

\* the lock is not looked at
vocabulary_acquire_unlocked(st, o, vid) ==
    vocabulary_locked_section([st EXCEPT !.locked = TRUE], o, vid)

\* yield self._area_vocabulary_id_lock.acquire()
vocabulary_acquire(st, o, vid) ==
    IF ~st.locked
    THEN vocabulary_locked_section([st EXCEPT !.locked = TRUE], o, vid)
    ELSE [st EXCEPT !.waiting = Append(@, o), !.pc[o] = "waiting"]

\* the lock stays held when the lookup raises
vocabulary_raise_unreleased(st, o, vid) == [st EXCEPT !.pc[o] = "failed"]

\* an exception inside the try block: finally releases the lock, the call fails
vocabulary_raise(st, o, vid) == vocabulary_release([st EXCEPT !.pc[o] = "failed"], vid)

VocabularyState ==
    [pc |-> v_pc, locked |-> vlock_locked, waiting |-> vlock_waiting,
     lookups |-> v_lookups, returned |-> v_returned]

VocabularyBecomes(st) ==
    /\ v_pc' = st.pc
    /\ vlock_locked' = st.locked
    /\ vlock_waiting' = st.waiting
    /\ v_lookups' = st.lookups
    /\ v_returned' = st.returned

VocabularyInit ==
    /\ v_pc = [o \in Operations |-> "idle"]
    /\ area_vocabulary_id = None
    /\ vlock_locked = FALSE
    /\ vlock_waiting = <<>>
    /\ v_lookups = 0
    /\ v_failures = 0
    /\ v_returned = [o \in Operations |-> None]
    /\ v_stored = <<>>
    /\ v_batch = TRUE

\* an operation enters _get_area_vocabulary_id
GetAreaVocabularyId(o) ==
    /\ v_pc[o] = "idle"
    /\ v_batch' = (/\ v_batch
                   /\ area_vocabulary_id = None
                   /\ \A q \in Operations : v_pc[q] \notin {"done", "failed"})
    /\ IF area_vocabulary_id /= None
       THEN VocabularyBecomes([VocabularyState EXCEPT
                !.pc[o] = "done", !.returned[o] = area_vocabulary_id])
       ELSE VocabularyBecomes(vocabulary_acquire(VocabularyState, o, area_vocabulary_id))
    /\ UNCHANGED <<area_vocabulary_id, v_failures, v_stored>>
    /\ UNCHANGED exceptVocabulary

\* get_entities('taxonomy_vocabulary', ...) fails: the request could not be
\* authenticated or sent, or was answered with a status other than 200
VocabularyRaise(o) ==
    /\ v_pc[o] = "lookup"
    /\ VocabularyBecomes(vocabulary_raise(VocabularyState, o, area_vocabulary_id))
    /\ v_failures' = v_failures + 1
    /\ UNCHANGED <<area_vocabulary_id, v_stored, v_batch>>
    /\ UNCHANGED exceptVocabulary

\* the answer to get_entities('taxonomy_vocabulary', ...): the 'vid' of the first
\* entry is stored and returned; an empty list raises (IndexError)
VocabularyAnswer(o) ==
    /\ v_pc[o] = "lookup"
    /\ \E vocabularies \in VocabularyLists :
        IF Len(vocabularies) = 0
        THEN /\ VocabularyBecomes(
                    vocabulary_raise(VocabularyState, o, area_vocabulary_id))
             /\ v_failures' = v_failures + 1
             /\ UNCHANGED <<area_vocabulary_id, v_stored>>
        ELSE LET vid == vocabularies[1]
             IN  /\ area_vocabulary_id' = vid
                 /\ v_stored' = Append(v_stored, vid)
                 /\ VocabularyBecomes(vocabulary_release(
                        [VocabularyState EXCEPT !.pc[o] = "done",
                                                !.returned[o] = vid], vid))
                 /\ UNCHANGED v_failures
    /\ UNCHANGED v_batch
    /\ UNCHANGED exceptVocabulary

VocabularyNext ==
    \/ \E o \in Operations : GetAreaVocabularyId(o)
    \/ \E o \in Operations : VocabularyAnswer(o)
    \/ \E o \in Operations : VocabularyRaise(o)

(***************************************************************************)
(* Two clients side by side.                                               *)
(*                                                                         *)
(* Each call is an operation on one of the clients that asks for the       *)
(* vocabulary id and, in the lookup, for the session: the calls with an    *)
(* odd number are on one client, the others on the other. Each client has  *)
(* its own token, vocabulary id and, made by its __init__, its own two     *)
(* locks. A session that is stored stays valid here.                       *)
(***************************************************************************)
client_of(c) == c % 2
Clients == {client_of(c) : c \in Callers}

\* one lock for all the clients
client_lock_of_class(client) == 0

\* self._session_lock = defer.DeferredLock(), and likewise
\* self._area_vocabulary_id_lock: the lock of a client is its own
client_lock(client) == client

PeerSession(k) ==
    [pc |-> p_spc, locked |-> p_slock[client_lock(k)].locked,
     waiting |-> p_slock[client_lock(k)].waiting, posts |-> p_posts[k]]

PeerSessionBecomes(k, st) ==
    /\ p_spc' = st.pc
    /\ p_slock' = [p_slock EXCEPT ![client_lock(k)] =
                                     [locked |-> st.locked, waiting |-> st.waiting]]
    /\ p_posts' = [p_posts EXCEPT ![k] = st.posts]

PeerVocabulary(k) ==
    [pc |-> p_vpc, locked |-> p_vlock[client_lock(k)].locked,
     waiting |-> p_vlock[client_lock(k)].waiting, lookups |-> p_lookups[k],
     returned |-> p_returned]

PeerVocabularyBecomes(k, st) ==
    /\ p_vpc' = st.pc
    /\ p_vlock' = [p_vlock EXCEPT ![client_lock(k)] =
                                     [locked |-> st.locked, waiting |-> st.waiting]]
    /\ p_lookups' = [p_lookups EXCEPT ![k] = st.lookups]
    /\ p_returned' = st.returned

PeerInit ==
    /\ p_spc = [c \in Callers |-> "idle"]
    /\ p_vpc = [c \in Callers |-> "idle"]
    /\ p_slock = [k \in Clients |-> [locked |-> FALSE, waiting |-> <<>>]]
    /\ p_vlock = [k \in Clients |-> [locked |-> FALSE, waiting |-> <<>>]]
    /\ p_token = [k \in Clients |-> None]
    /\ p_vid = [k \in Clients |-> None]
    /\ p_posts = [k \in Clients |-> 0]
    /\ p_lookups = [k \in Clients |-> 0]
    /\ p_returned = [c \in Callers |-> None]

\* a call enters its client's _get_area_vocabulary_id
PeerGetAreaVocabularyId(c) ==
    LET k == client_of(c)
    IN  /\ p_vpc[c] = "idle"
        /\ IF p_vid[k] /= None
           THEN PeerVocabularyBecomes(k, [PeerVocabulary(k) EXCEPT
                    !.pc[c] = "done", !.returned[c] = p_vid[k]])
           ELSE PeerVocabularyBecomes(k, vocabulary_acquire(PeerVocabulary(k), c, p_vid[k]))
        /\ UNCHANGED <<p_spc, p_slock, p_token, p_vid, p_posts>>
        /\ UNCHANGED exceptPeer

\* the lookup of a call enters its client's _ensure_authenticated
PeerEnsureAuthenticated(c) ==
    LET k == client_of(c)
    IN  /\ p_vpc[c] = "lookup"
        /\ p_spc[c] = "idle"
        /\ IF session_current(p_token[k], TRUE)
           THEN PeerSessionBecomes(k, [PeerSession(k) EXCEPT !.pc[c] = "done"])
           ELSE PeerSessionBecomes(k, acquire(PeerSession(k), c, p_token[k], TRUE))
        /\ UNCHANGED <<p_vpc, p_vlock, p_token, p_vid, p_lookups, p_returned>>
        /\ UNCHANGED exceptPeer

\* the answer to the login POST of a call
PeerLoginResponse(c) ==
    LET k == client_of(c)
    IN  /\ p_spc[c] = "login"
        /\ \E code \in {302, 403} :
            IF login_accepted(code)
            THEN PeerSessionBecomes(k, [PeerSession(k) EXCEPT !.pc[c] = "token"])
            ELSE PeerSessionBecomes(k, release([PeerSession(k) EXCEPT !.pc[c] = "failed"],
                                               p_token[k], TRUE))
        /\ UNCHANGED <<p_vpc, p_vlock, p_token, p_vid, p_lookups, p_returned>>
        /\ UNCHANGED exceptPeer

\* the answer to the token GET of a call, and its body
PeerTokenResponse(c) ==
    LET k == client_of(c)
    IN  /\ p_spc[c] = "token"
        /\ \E code \in {200, 403} :
            IF token_accepted(code)
            THEN /\ p_token' = [p_token EXCEPT ![k] = "token"]
                 /\ PeerSessionBecomes(k, release([PeerSession(k) EXCEPT !.pc[c] = "done"],
                                                  "token", TRUE))
            ELSE /\ PeerSessionBecomes(k, release([PeerSession(k) EXCEPT
                                                      !.pc[c] = "failed"],
                                                  p_token[k], TRUE))
                 /\ UNCHANGED p_token
        /\ UNCHANGED <<p_vpc, p_vlock, p_vid, p_lookups, p_returned>>
        /\ UNCHANGED exceptPeer

\* the lookup of a call is over: its session check failed, or the backend answered
PeerVocabularyAnswer(c) ==
    LET k == client_of(c)
    IN  /\ p_vpc[c] = "lookup"
        /\ p_spc[c] \in {"done", "failed"}
        /\ \E vocabularies \in VocabularyLists :
            IF p_spc[c] = "failed" \/ Len(vocabularies) = 0
            THEN /\ PeerVocabularyBecomes(k, vocabulary_raise(PeerVocabulary(k), c,
                                                             p_vid[k]))
                 /\ UNCHANGED p_vid
            ELSE /\ p_vid' = [p_vid EXCEPT ![k] = vocabularies[1]]
                 /\ PeerVocabularyBecomes(k, vocabulary_release(
                        [PeerVocabulary(k) EXCEPT !.pc[c] = "done",
                                                  !.returned[c] = vocabularies[1]],
                        vocabularies[1]))
        /\ UNCHANGED <<p_spc, p_slock, p_token, p_posts>>
        /\ UNCHANGED exceptPeer

PeerNext ==
    \/ \E c \in Callers : PeerGetAreaVocabularyId(c)
    \/ \E c \in Callers : PeerEnsureAuthenticated(c)
    \/ \E c \in Callers : PeerLoginResponse(c)
    \/ \E c \in Callers : PeerTokenResponse(c)
    \/ \E c \in Callers : PeerVocabularyAnswer(c)

(***************************************************************************)
(* tx_drupal_rest_ws_client.py: _derive_session_expiry_date_time.          *)
(*                                                                         *)
(* A cookie is [name, expires]: the name is the sequence of its letters,   *)
(* expires is a sequence of at most one timestamp, empty for None. A       *)
(* timestamp counts half hours; a datetime is the record [utc |-> n] of    *)
(* the half hours since the epoch.                                         *)
(***************************************************************************)
MaxCookies == 2

CookieNames ==
    { <<"S", "E", "S", "S", "a">>, <<"s", "e", "s", "s", "a">>, <<"S", "E", "S">>,
      <<"a", "S", "E", "S", "S">>, <<"h", "a", "s">> }

Cookies == {[name |-> n, expires |-> e] : n \in CookieNames, e \in {<<>>, <<0>>, <<9>>, <<60>>}}

\* datetime.fromtimestamp(t, timezone.utc), for a timestamp datetime can represent
fromtimestamp(t) == [utc |-> t]

\* timedelta(hours=h), added to a datetime
plus_hours(date_time, h) == [utc |-> date_time.utc + 2 * h]

\* name.startswith(prefix)
startswith(name, prefix) ==
    Len(name) >= Len(prefix) /\ SubSeq(name, 1, Len(prefix)) = prefix

\* min() of a list of datetimes that is not empty
min(date_times) ==
    date_times[CHOOSE i \in DOMAIN date_times :
                   \A j \in DOMAIN date_times : date_times[i].utc <= date_times[j].utc]

RECURSIVE read_cookie_expiries(_, _)
\* for cookie in self._cookie_jar: the two lists of expiries
read_cookie_expiries(lists, cookies) ==
    IF Len(cookies) = 0 THEN lists
    ELSE LET cookie == Head(cookies)
             cookie_expiry == cookie.expires
         IN  IF Len(cookie_expiry) = 0
             THEN read_cookie_expiries(lists, Tail(cookies))
             ELSE LET cookie_expiry_date_time == fromtimestamp(cookie_expiry[1])
                  IN  read_cookie_expiries(
                          [session_cookie_expiries |->
                              IF startswith(cookie.name, <<"S", "E", "S", "S">>)
                              THEN Append(lists.session_cookie_expiries,
                                          cookie_expiry_date_time)
                              ELSE lists.session_cookie_expiries,
                           all_cookie_expiries |->
                              Append(lists.all_cookie_expiries, cookie_expiry_date_time)],
                          Tail(cookies))

\* the session cookies are not preferred
derive_session_expiry_date_time_of_all(jar, date_time_now) ==
    LET lists == read_cookie_expiries(
                     [session_cookie_expiries |-> <<>>, all_cookie_expiries |-> <<>>], jar)
    IN  IF Len(lists.all_cookie_expiries) > 0 THEN min(lists.all_cookie_expiries)
        ELSE plus_hours(date_time_now, 24)

\* _derive_session_expiry_date_time
derive_session_expiry_date_time(jar, date_time_now) ==
    LET lists == read_cookie_expiries(
                     [session_cookie_expiries |-> <<>>, all_cookie_expiries |-> <<>>], jar)
    IN  IF Len(lists.session_cookie_expiries) > 0
        THEN min(lists.session_cookie_expiries)
        ELSE IF Len(lists.all_cookie_expiries) > 0
        THEN min(lists.all_cookie_expiries)
        ELSE plus_hours(date_time_now, 24)

NoDateTime == [utc |-> -1]

ExpiryInit ==
    /\ cookie_jar = <<>>
    /\ now = fromtimestamp(0)
    /\ session_expiry = NoDateTime

\* a login has filled the cookie jar; the expiry is derived from it
DeriveSessionExpiry ==
    /\ session_expiry = NoDateTime
    /\ \E jar \in SeqsUpTo(Cookies, MaxCookies), t \in {3, 20} :
        /\ cookie_jar' = jar
        /\ now' = fromtimestamp(t)
        /\ session_expiry' = derive_session_expiry_date_time(jar, fromtimestamp(t))
    /\ UNCHANGED exceptExpiry

\* the next login
ExpiryClose ==
    /\ session_expiry /= NoDateTime
    /\ cookie_jar' = <<>>
    /\ now' = fromtimestamp(0)
    /\ session_expiry' = NoDateTime
    /\ UNCHANGED exceptExpiry

ExpiryNext == DeriveSessionExpiry \/ ExpiryClose

(***************************************************************************)
(* The specifications.                                                     *)
(***************************************************************************)
Init ==
    /\ WfsInit /\ FmInit /\ SessionInit /\ PageInit /\ ListingInit /\ CommitInit
    /\ ClientInit /\ VocabularyInit /\ ExpiryInit /\ WalkInit
    /\ EntityInit /\ PeerInit

Next ==
    \/ Receive(Requests)
    \/ Resolve
    \/ Render
    \/ FeatureServerFails
    \/ GetCapabilities
    \/ DescribeFeatureType
    \/ GetFeature
    \/ GetFeatureRespond
    \/ TransactionRead(GatewayBodies)
    \/ TransactionRespond(GatewayOutcomes)
    \/ Close

Spec == Init /\ [][Next]_vars

\* the machine on the requests that exercise the Transaction handler
TxNext ==
    \/ Receive(TransactionRequests)
    \/ Resolve
    \/ Render
    \/ FeatureServerFails
    \/ TransactionRead(Bodies)
    \/ TransactionRespond(GatewayOutcomes)
    \/ Close

TxSpec == Init /\ [][TxNext]_vars

\* the machine on the requests that exercise the response of the Transaction handler
ResponseNext ==
    \/ Receive(TransactionRequests)
    \/ Resolve
    \/ Render
    \/ FeatureServerFails
    \/ TransactionRead(ResponseBodies)
    \/ TransactionRespond(Outcomes)
    \/ Close

ResponseSpec == Init /\ [][ResponseNext]_vars

\* the feature listing of fosafp.py
FmSpec == Init /\ [][FmNext]_vars

\* the requests for a backend client
ClientSpec == Init /\ [][ClientNext]_vars

\* the commit of a transaction by the proxy feature server
CommitSpec == Init /\ [][CommitNext]_vars

\* the "all features" requests of one client
ListingSpec == Init /\ [][ListingNext]_vars

\* a walk over the pages of a listing
PageSpec == Init /\ [][PageNext]_vars

\* a traversal of the pages of a listing whose length stays as it is
WalkSpec == Init /\ [][WalkNext]_vars

\* get_all_entities over a listing
AllSpec == Init /\ [][AllNext]_vars

\* a traversal of the pages of a listing whose length changes meanwhile
ChangingSpec == Init /\ [][ChangingNext]_vars

\* the operations of two clients
PeerSpec == Init /\ [][PeerNext]_vars

\* the entity operations of one client
EntitySpec == Init /\ [][EntityNext]_vars

\* the callers of one client's _ensure_authenticated
SessionSpec == Init /\ [][SessionNext]_vars

\* the callers of one client's _get_area_vocabulary_id
VocabularySpec == Init /\ [][VocabularyNext]_vars

\* The two locks of one client, in the operations that create an area. The first
\* authenticated request of operation o is call o of _ensure_authenticated: the
\* vocabulary lookup when o runs it (get_entities asks for the authenticated headers
\* first), the create_entity request when o got the id without a lookup. A lookup
\* whose authentication failed raises; one that is authenticated is answered.
Requesters == {o \in Operations : o \in Callers}

LockNext ==
    \/ \E o \in Requesters : GetAreaVocabularyId(o)
    \/ \E o \in Requesters : v_pc[o] \in {"lookup", "done"} /\ EnsureAuthenticated(o)
    \/ \E c \in Callers : LoginResponse(c)
    \/ \E c \in Callers : TokenResponse(c)
    \/ \E c \in Callers : BodyRead(c)
    \/ Expire
    \/ \E o \in Requesters : s_pc[o] = "done" /\ VocabularyAnswer(o)
    \/ \E o \in Requesters : s_pc[o] = "failed" /\ VocabularyRaise(o)

LockSpec == Init /\ [][LockNext]_vars

\* The area operations of one client. An operation that needs the vocabulary id
\* (create, get_by_id) enters _get_area_vocabulary_id; one that does not (update,
\* delete, get_all) goes straight to its authenticated request. The operations
\* with an odd number are of the first kind, the others of the second.
NeedsVocabularyId(o) == o % 2 = 1

AreaStart ==
    \/ \E o \in Requesters : NeedsVocabularyId(o) /\ GetAreaVocabularyId(o)
    \/ \E o \in Requesters : ~NeedsVocabularyId(o) /\ EnsureAuthenticated(o)

\* what the operations under way do without waiting for anything but the backend
AreaProgress ==
    \/ \E o \in Requesters : v_pc[o] \in {"lookup", "done"} /\ EnsureAuthenticated(o)
    \/ \E c \in Callers : LoginResponse(c)
    \/ \E c \in Callers : TokenResponse(c)
    \/ \E c \in Callers : BodyRead(c)
    \/ \E o \in Requesters : s_pc[o] = "done" /\ VocabularyAnswer(o)
    \/ \E o \in Requesters : s_pc[o] = "failed" /\ VocabularyRaise(o)

AreaNext == AreaStart \/ AreaProgress \/ Expire

\* the backend answers every request, and a task that can run does
AreaSpec == Init /\ [][AreaNext]_vars /\ WF_vars(AreaProgress)

\* the expiry of the session derived from the cookies of a login
ExpirySpec == Init /\ [][ExpiryNext]_vars

(***************************************************************************)
(* What a request asks for, read off the raw arguments.                    *)
(***************************************************************************)
\* the values given under a name, whatever the case of its letters
Given(req, name) == {req.args[i][2] : i \in {j \in DOMAIN req.args : Lower(req.args[j][1]) = name}}

NotWfs(req) == \A values \in Given(req, "service") : Len(values) = 0 \/ values[1] /= "WFS"

IsWfs(req) ==
    /\ Given(req, "service") /= {}
    /\ \A values \in Given(req, "service") : Len(values) > 0 /\ values[1] = "WFS"

Resolved == pc \notin {"idle", "resolve"}
Rendered == pc \notin {"idle", "resolve", "render"}

Count(seq, x) == Cardinality({i \in DOMAIN seq : seq[i] = x})

(***************************************************************************)
(* The claims.                                                             *)
(***************************************************************************)

\* C1: a request whose service argument is absent, or whose first value is not
\* exactly WFS, is refused by getChildWithDefault with InvalidWfsRequest: no engine
\* is returned and no FeatureServer method is invoked for it.
C1_ServiceRequired ==
    (pc /= "idle" /\ NotWfs(request)) =>
        /\ calls = <<>>
        /\ child = NoVersion
        /\ capability_handler = None
        /\ Resolved => (pc = "done" /\ raised = "InvalidWfsRequest")

C1_Witness ==
    /\ pc = "done"
    /\ NotWfs(request)
    /\ Given(request, "service") = {<<"WCS", "WFS">>}
    /\ raised = "InvalidWfsRequest"

\* C2: with service=WFS, the engine returned is that of the highest supported
\* version when no version argument is given, and that of the requested version
\* when it is a supported one.
C2_VersionDefaultAndExact ==
    (Resolved /\ IsWfs(request)) =>
        /\ Given(request, "version") = {} =>
              /\ child \in by_version
              /\ \A v \in by_version : VersionLeq(v, child)
        /\ \A values \in Given(request, "version") :
              (Len(values) > 0 /\ Version(values[1]) \in by_version) =>
                  child = Version(values[1])

C2_Witness ==
    /\ pc = "render"
    /\ IsWfs(request)
    /\ Given(request, "version") = {}
    /\ child = <<1, 0, 0>>

\* C3: with service=WFS and a version that is not supported, the engine returned
\* is that of the greatest supported version not above the requested one, and that
\* of the lowest supported version when the requested one is below them all.
C3_VersionFallback ==
    (Resolved /\ IsWfs(request)) =>
        \A values \in Given(request, "version") :
            LET requested == IF Len(values) > 0 THEN Version(values[1]) ELSE NoVersion
                below == {v \in by_version : VersionLeq(v, requested)}
            IN  (requested /= NoVersion /\ requested \notin by_version) =>
                    /\ raised /= "TypeError"
                    /\ child = IF below = {} THEN MinVersion(by_version)
                               ELSE MaxVersion(below)

\* C4: a POST that reaches the engine is handled by the Transaction handler,
\* whatever its request argument: no other handler runs and no document but a
\* TransactionResponse is returned for it.
C4_PostIsTransaction ==
    (Rendered /\ request.method = "POST" /\ child /= NoVersion) =>
        /\ capability_handler = "Transaction"
        /\ Len(calls) > 0
        /\ layer_arg = <<>>
        /\ response_doc.root \in {None, "TransactionResponse"}

C4_Witness ==
    /\ pc = "done"
    /\ request.method = "POST"
    /\ Given(request, "request") = {<<"GetFeature">>}
    /\ response_doc.root = "TransactionResponse"

\* C5: a request that is no POST is handled by the handler named by its request
\* argument; if no handler has that name or the handler does not list the HTTP
\* method, render raises InvalidWfsRequest and no handler runs and no FeatureServer
\* method is invoked.
C5_DispatchByName ==
    (Rendered /\ request.method /= "POST" /\ child /= NoVersion) =>
        LET names == {IF Len(values) > 0 THEN values[1] ELSE None :
                          values \in Given(request, "request")}
            listed(c) ==
                IF c = "Transaction" THEN request.method \in {"post"}
                ELSE c \in {"GetCapabilities", "DescribeFeatureType", "GetFeature"}
                        /\ request.method \in {"GET"}
        IN  IF \E c \in names : listed(c)
            THEN /\ capability_handler \in names
                 /\ Len(calls) > 0
            ELSE /\ capability_handler = None
                 /\ calls = <<>>
                 /\ raised = "InvalidWfsRequest"
                 /\ pc = "done"
                 /\ response_doc = NoDoc

C5_Witness ==
    /\ pc = "done"
    /\ request.method = "GET"
    /\ Given(request, "request") = {<<"Transaction">>}
    /\ raised = "InvalidWfsRequest"
    /\ calls = <<>>

\* C6: a GetFeature whose typename is absent or names no layer fails with
\* InvalidWfsRequest once the layers are known, and get_all_features is never
\* called for it; for a known layer get_all_features is called exactly once, with
\* that layer.
C6_GetFeatureLayer ==
    capability_handler = "GetFeature" =>
        LET names == {IF Len(values) > 0 THEN values[1] ELSE "" :
                          values \in Given(request, "typename")}
            known == \E n \in names : \E i \in DOMAIN LayerDefinitions :
                         LayerDefinitions[i].name = n
            layers_failed == raised = "FeatureServerError" /\ Len(calls) = 1
        IN  IF known
            THEN (pc = "get_all_features" \/ (pc = "done" /\ ~layers_failed)) =>
                     /\ Count(calls, "get_all_features") = 1
                     /\ Len(layer_arg) = 1
                     /\ layer_arg[1] \in names
            ELSE /\ Count(calls, "get_all_features") = 0
                 /\ layer_arg = <<>>
                 /\ pc /= "get_all_features"
                 /\ (pc = "done" /\ ~layers_failed) => raised = "InvalidWfsRequest"

C6_Witness ==
    /\ pc = "done"
    /\ capability_handler = "GetFeature"
    /\ Given(request, "typename") = {<<"points">>}
    /\ calls = <<"layer_definitions", "get_all_features">>
    /\ layer_arg = <<"points">>
    /\ response_code = 200

\* C7: the feature members listed for a layer are exactly the backend records
\* whose one geometry entry is of the layer's kind, in backend order; records of
\* another kind, of an unknown layer type or without exactly one geometry entry are
\* left out, and none of them makes the listing fail.
LayerKind(type_name) ==
    IF type_name = "farm_os_features_point" THEN "point"
    ELSE IF type_name = "farm_os_features_polygon" THEN "polygon"
    ELSE IF type_name = "farm_os_features_line_string" THEN "linestring"
    ELSE "no kind"

C7_TypeFilteredMembers ==
    fm_pc = "done" =>
        LET listed(record) ==
                /\ Len(record.geofield) = 1
                /\ record.geofield[1].geo_type = LayerKind(fm_type_name)
            kept == SelectSeq(fm_areas, listed)
        IN  /\ Len(fm_members) = Len(kept)
            /\ \A i \in DOMAIN kept :
                  /\ fm_members[i].id = <<fm_type_name, kept[i].tid>>
                  /\ fm_members[i].geometry = kept[i].geofield[1].geom

C7_Witness ==
    /\ fm_pc = "done"
    /\ fm_type_name = "farm_os_features_point"
    /\ Len(fm_areas) = 3
    /\ Len(fm_areas[1].geofield) = 2
    /\ fm_areas[2].geofield = <<Geo("polygon")>>
    /\ fm_areas[3].geofield = <<Geo("point")>>
    /\ Len(fm_members) = 1
    /\ fm_members[1].id = <<"farm_os_features_point", 3>>

\* C8: for a Transaction request whose body root is a Transaction element,
\* commit_transaction is invoked exactly once, after the actions were read, with the
\* Transaction read from them; also when an action lacks an expected child, such as
\* an Update without a filter.
C8_AlwaysCommitted ==
    (capability_handler = "Transaction" /\ content.root = "Transaction") =>
        /\ Count(calls, "commit_transaction") = 1
        /\ Len(transaction) = 1

\* C9: for a transaction of Delete actions only, each with a filter that is no
\* feature-id filter (its first child is no FeatureId), the Transaction passed to
\* commit_transaction has read failures and no feature to delete, and
\* commit_transaction is invoked with it.
UnsupportedDelete(action) ==
    /\ action.tag = "Delete"
    /\ Len(action.filters) > 0
    /\ Len(action.filters[1]) > 0
    /\ action.filters[1][1].tag /= "FeatureId"

OnlyUnsupportedDeletes ==
    /\ capability_handler = "Transaction"
    /\ content.root = "Transaction"
    /\ Len(content.actions) > 0
    /\ \A i \in DOMAIN content.actions : UnsupportedDelete(content.actions[i])

C9_UnsupportedDeletes ==
    OnlyUnsupportedDeletes =>
        /\ calls = <<"layer_definitions", "commit_transaction">>
        /\ Len(transaction) = 1
        /\ Len(transaction[1].read_transaction_failures) = Len(content.actions)
        /\ transaction[1].features_to_delete = <<>>
        /\ transaction[1].features_to_insert = <<>>
        /\ transaction[1].features_to_update = <<>>

C9_Witness ==
    /\ OnlyUnsupportedDeletes
    /\ Len(content.actions) = 2
    /\ \E i \in DOMAIN content.actions : Len(content.actions[i].filters[1]) = 2
    /\ pc = "commit_transaction"
    /\ Len(transaction[1].read_transaction_failures) = 2

\* C10: the status of a transaction response depends on two counts only, the
\* successes S (inserted, updated and deleted outcome items) and the failures F
\* (read failures and commit failures): SUCCESS iff S > 0 and F = 0, PARTIAL iff
\* S > 0 and F > 0, FAILED iff S = 0.
C10_Status ==
    response_doc.root = "TransactionResponse" =>
        LET S == Len(transaction_outcome.inserted_features)
                   + Len(transaction_outcome.updated_features)
                   + Len(transaction_outcome.deleted_features)
            F == Len(transaction[1].read_transaction_failures)
                   + Len(transaction_outcome.transaction_failures)
        IN  /\ response_doc.status \in {"SUCCESS", "PARTIAL", "FAILED"}
            /\ response_doc.status = "SUCCESS" <=> (S > 0 /\ F = 0)
            /\ response_doc.status = "PARTIAL" <=> (S > 0 /\ F > 0)
            /\ response_doc.status = "FAILED" <=> S = 0

C10_Witness ==
    /\ response_doc.root = "TransactionResponse"
    /\ response_doc.status = "PARTIAL"
    /\ Len(transaction[1].read_transaction_failures) > 0
    /\ transaction_outcome.transaction_failures = <<>>

(***************************************************************************)
(* C11..C13: the transaction response and the rendering wrapper.           *)
(***************************************************************************)
\* the feature ids of the items of a sequence that carry the handle h, in order
FidsWithHandle(items, h) ==
    LET picked == SelectSeq(items, LAMBDA item : get_handle(item) = h)
    IN  [i \in 1..Len(picked) |-> picked[i].data]

\* C11: the response holds exactly one InsertResult per distinct handle among the
\* inserted outcome items (a missing handle counting as the empty one); it lists the
\* feature ids of all the items with that handle and carries a handle attribute only
\* when the handle is not empty.
C11_InsertResultPerHandle ==
    response_doc.root = "TransactionResponse" =>
        LET inserted == transaction_outcome.inserted_features
            handles == {get_handle(inserted[i]) : i \in DOMAIN inserted}
            results == response_doc.insert_results
        IN  /\ Len(results) = Cardinality(handles)
            /\ \A h \in handles :
                   \E g \in DOMAIN results :
                       /\ results[g].fids = FidsWithHandle(inserted, h)
                       /\ results[g].handle = IF h = "" THEN None ELSE h

\* C12: the messages of a transaction response are the data of the read failures, in
\* the order they were met, followed by the data of the commit failures: one message
\* for each failure, none lost, none twice.
C12_Messages ==
    response_doc.root = "TransactionResponse" =>
        LET read == transaction[1].read_transaction_failures
            commit == transaction_outcome.transaction_failures
        IN  /\ Len(response_doc.messages) = Len(read) + Len(commit)
            /\ \A i \in DOMAIN read : response_doc.messages[i] = read[i].data
            /\ \A i \in DOMAIN commit :
                   response_doc.messages[Len(read) + i] = commit[i].data
            /\ (\E i \in DOMAIN content.actions : content.actions[i].tag = "Update")
                   => /\ Len(read) = 2
                      /\ response_doc.messages[1]
                             = "Received invalid feature update with n geometries"
                      /\ response_doc.messages[2]
                             = "Only updating features by feature id is supported"

C12_Witness ==
    /\ response_doc.root = "TransactionResponse"
    /\ Len(transaction[1].read_transaction_failures) = 2
    /\ Len(transaction_outcome.transaction_failures) = 2
    /\ Len(response_doc.messages) = 4

\* C13: a request rendered through deferred_rendering_fn is finished exactly once,
\* whether the handler returned, raised before its first suspension or failed after
\* it; a failed handler gives code 500 and nothing written, a handler that returned
\* gives one write; the next request is then served.
C13_WrapperFinishes ==
    /\ finished <= 1
    /\ written <= finished
    /\ (pc = "done" /\ child /= NoVersion) =>
          /\ finished = 1
          /\ raised /= None => (response_code = 500 /\ written = 0)
          /\ raised = None => (response_code = 200 /\ written = 1)
          /\ ENABLED Close
    /\ (pc = "idle") => ENABLED Receive(Requests)

C13_Witness ==
    /\ pc = "done"
    /\ child /= NoVersion
    /\ raised = "FeatureServerError"
    /\ calls = <<"layer_definitions", "get_all_features">>
    /\ finished = 1
    /\ response_code = 500

(***************************************************************************)
(* C14, C15: the session of one client.                                    *)
(***************************************************************************)
AllReturned == \A c \in Callers : s_pc[c] \in {"done", "failed"}
InFlight == {c \in Callers : s_pc[c] \in {"login", "token", "body"}}

\* C14: the calls issued concurrently on one client while it has no valid session
\* trigger exactly one login sequence, one login POST followed by one token GET, in
\* total.
C14_OneLoginSequence ==
    (AllReturned /\ s_batch) => (login_posts = 1 /\ token_gets = 1)

\* C14, amended: such calls trigger exactly one login sequence in total when that
\* sequence succeeds and its session has not run out when the waiting callers check
\* again; a sequence that fails, or whose session has run out, is followed by the
\* sequence of the next waiting caller, so there is at most one sequence per call,
\* and one more than the failures and expiries at most.
C14_OneLoginPerStaleSession ==
    /\ token_gets <= login_posts
    /\ login_posts <= 1 + s_failures + s_expired
    /\ login_posts <= Cardinality({c \in Callers : s_pc[c] /= "idle"})
    /\ (AllReturned /\ s_batch /\ s_failures = 0 /\ s_expired = 0)
          => (login_posts = 1 /\ token_gets = 1)

C14_Witness ==
    /\ AllReturned
    /\ s_batch
    /\ s_failures = 0
    /\ s_expired = 0
    /\ \A c \in Callers : s_pc[c] = "done"
    /\ login_posts = 1
    /\ token_gets = 1

\* C15: in every state at most one login sequence is in flight on the client; the
\* caller running it holds the session lock and the others that found no valid
\* session wait on the lock.
C15_OneLoginInFlight ==
    /\ Cardinality(InFlight) <= 1
    /\ InFlight /= {} => lock_locked
    /\ \A c \in Callers :
          s_pc[c] = "waiting" <=> \E i \in DOMAIN lock_waiting : lock_waiting[i] = c
    /\ lock_waiting /= <<>> => InFlight /= {}

C15_Witness ==
    /\ \E c \in InFlight : s_pc[c] = "token"
    /\ Len(lock_waiting) >= 2
    /\ lock_locked

(***************************************************************************)
(* C16: walking the pages of a listing.                                    *)
(***************************************************************************)
Visited(direction) == SelectSeq(pg_trail, LAMBDA v : v[1] = direction)

\* C16: from the first page of a listing, next_page to the last page and then
\* prev_page back to page 0 visits every page once in each direction, each visited
\* page having the number and the records of its position; the walk ends on the
\* first page object itself, its records unchanged, and every page was asked of the
\* backend once.
C16_ForwardBackward ==
    (pg_pc = "done" /\ pg_retained) =>
        LET forward == Visited("forward")
            backward == Visited("backward")
        IN  /\ Len(forward) = pg_count
            /\ Len(backward) = pg_count
            /\ \A i \in 1..pg_count :
                   /\ pg_pages[forward[i][2]].page_num = i - 1
                   /\ pg_pages[forward[i][2]].list = BackendList(pg_count, i - 1)
                   /\ backward[i][2] = forward[pg_count + 1 - i][2]
            /\ pg_cur = 1
            /\ pg_pages[1].page_num = 0
            /\ pg_pages[1].list = BackendList(pg_count, 0)
            /\ pg_fetches = [i \in 1..pg_count |-> i - 1]

C16_Witness ==
    /\ pg_pc = "done"
    /\ pg_retained
    /\ pg_count >= 3
    /\ pg_cur = 1
    /\ Len(pg_trail) = 2 * pg_count

(***************************************************************************)
(* C17: the "all features" cache.                                          *)
(***************************************************************************)
CallsIn(epoch) == Cardinality({i \in DOMAIN lc_calls : lc_calls[i] = epoch})

C20_ClientCache ==
    /\ Len(cc_cache) <= maxsize
    /\ \A i, j \in DOMAIN cc_cache :
          (cc_cache[i][1] = cc_cache[j][1] \/ cc_cache[i][2] = cc_cache[j][2]) => i = j
    /\ \A i \in DOMAIN cc_cache : cc_made[cc_cache[i][2]] = cc_cache[i][1]
    /\ cc_last.key /= None =>
          /\ cc_cache[Len(cc_cache)] = <<cc_last.key, cc_last.client>>
          /\ cc_last.cached /= NoClient
                => (cc_last.client = cc_last.cached /\ ~cc_last.created)
          /\ cc_last.cached = NoClient
                => (cc_last.created /\ cc_last.client = Len(cc_made))
          /\ cc_last.evicted /= None
                => /\ Len(cc_last.before) = maxsize
                   /\ cc_last.evicted = cc_last.before[1][1]
          /\ \A i \in DOMAIN cc_last.before :
                (i > 1 \/ cc_last.evicted = None)
                    => Cached(cc_cache, cc_last.before[i][1]) = cc_last.before[i][2]

C20_Witness ==
    /\ Len(cc_cache) = maxsize
    /\ cc_last.evicted /= None
    /\ cc_last.created
    /\ \E i \in DOMAIN cc_made : i < cc_last.client /\ cc_made[i] = cc_last.key


(***************************************************************************)
(* C21: the vocabulary id of one client.                                   *)
(***************************************************************************)
VocabularyReturned == \A o \in Operations : v_pc[o] \in {"done", "failed"}
LookingUp == {o \in Operations : v_pc[o] = "lookup"}

\* C21: the operations issued concurrently on one client while its vocabulary id is
\* unresolved trigger exactly one vocabulary lookup in total.
C21_OneLookup ==
    (VocabularyReturned /\ v_batch) => v_lookups = 1

\* C21, amended: such operations trigger exactly one lookup in total when that lookup
\* succeeds; a lookup that fails is followed by the lookup of the next waiting
\* operation, so there is at most one lookup per operation and one more than the
\* failed lookups at most. At most one lookup is in flight at any time, under the
\* lock; once an id is stored it is never replaced, no lookup starts, and every call
\* that returns, returns it.
C21_OneLookupPerUnresolvedId ==
    /\ v_lookups <= 1 + v_failures
    /\ v_lookups <= Cardinality({o \in Operations : v_pc[o] /= "idle"})
    /\ (VocabularyReturned /\ v_batch /\ v_failures = 0) => v_lookups = 1
    /\ Cardinality(LookingUp) <= 1
    /\ LookingUp /= {} => vlock_locked
    /\ Len(v_stored) <= 1
    /\ area_vocabulary_id /= None =>
          /\ LookingUp = {}
          /\ v_stored = <<area_vocabulary_id>>
          /\ v_lookups = v_failures + 1
    /\ \A o \in Operations : v_pc[o] = "done" => v_returned[o] = area_vocabulary_id

C21_Witness ==
    /\ VocabularyReturned
    /\ v_batch
    /\ v_failures = 0
    /\ v_lookups = 1
    /\ \A o \in Operations : v_pc[o] = "done" /\ v_returned[o] = "vid7"

(***************************************************************************)
(* C22 to C27: what the Transaction handler reads from a body. The claims  *)
(* speak of the Transaction built from the body: they are stated for the   *)
(* bodies that are read to their end. A body that lacks a child the reader *)
(* looks up ends in the exception of C8 and builds no Transaction.         *)
(***************************************************************************)
TransactionBuilt == Len(transaction) = 1 /\ content.root = "Transaction"

\* the feature children of the Insert actions, each with the handle of its action,
\* in document order
RECURSIVE InsertChildren(_)
InsertChildren(actions) ==
    IF Len(actions) = 0 THEN <<>>
    ELSE LET action == Head(actions)
         IN  (IF action.tag = "Insert"
              THEN [i \in 1..Len(action.features) |->
                       [handle |-> action.handle, feature |-> action.features[i]]]
              ELSE <<>>) \o InsertChildren(Tail(actions))

\* the read failure a feature child is to end in: that of the first of the four
\* checks it does not pass, None when it passes them all
InsertFailure(feature) ==
    LET named == {i \in DOMAIN LayerDefinitions : LayerDefinitions[i].name = feature.type}
        layer == LayerDefinitions[CHOOSE i \in named : TRUE]
    IN  IF named = {}
        THEN "Received invalid feature to insert for unknown TYPENAME"
        ELSE IF "Insert" \notin layer.operations
        THEN "Received unsupported operation insert for TYPENAME"
        ELSE IF Len(feature.geos) /= 1
        THEN "Received invalid feature to insert with n geometries"
        ELSE IF \E i \in DOMAIN layer.fields :
                   /\ layer.fields[i].required
                   /\ \A pair \in feature.fields :
                         pair[1] = layer.fields[i].name => pair[2] = None
        THEN "Received invalid feature to insert with missing required fields"
        ELSE None

InsertFailures ==
    { "Received invalid feature to insert for unknown TYPENAME",
      "Received unsupported operation insert for TYPENAME",
      "Received invalid feature to insert with n geometries",
      "Received invalid feature to insert with missing required fields" }

\* C22: in the Transaction built from a body, the feature children of the Insert
\* actions that pass the four checks (the tag names a layer, the layer allows Insert,
\* the geometry element has exactly one child, every required field has a text) are
\* the features to insert, in order, each with the handle of its action; each other
\* child has one read failure, that of the first check it does not pass, with the
\* handle of its action; so the features to insert and the insert read failures are
\* as many as the feature children.
C22_InsertFeatureOutcome ==
    TransactionBuilt =>
        LET children == InsertChildren(content.actions)
            passing == SelectSeq(children, LAMBDA ch : InsertFailure(ch.feature) = None)
            failing == SelectSeq(children, LAMBDA ch : InsertFailure(ch.feature) /= None)
            inserts == transaction[1].features_to_insert
            insert_failures ==
                SelectSeq(transaction[1].read_transaction_failures,
                          LAMBDA item : item.data \in InsertFailures)
        IN  /\ Len(inserts) + Len(insert_failures) = Len(children)
            /\ Len(inserts) = Len(passing)
            /\ \A i \in DOMAIN inserts :
                  /\ inserts[i].handle = passing[i].handle
                  /\ inserts[i].layer_def = passing[i].feature.type
                  /\ inserts[i].geometry = passing[i].feature.geos[1]
            /\ Len(insert_failures) = Len(failing)
            /\ \A i \in DOMAIN insert_failures :
                  /\ insert_failures[i].handle = failing[i].handle
                  /\ insert_failures[i].data = InsertFailure(failing[i].feature)

C22_Witness ==
    /\ TransactionBuilt
    /\ Len(InsertChildren(content.actions)) = 3
    /\ Len(transaction[1].features_to_insert) = 1
    /\ transaction[1].features_to_insert[1].handle = None
    /\ \E i \in DOMAIN transaction[1].read_transaction_failures :
          /\ transaction[1].read_transaction_failures[i].handle = "h1"
          /\ transaction[1].read_transaction_failures[i].data =
                "Received invalid feature to insert with missing required fields"
    /\ \E i \in DOMAIN transaction[1].read_transaction_failures :
          transaction[1].read_transaction_failures[i].data =
              "Received invalid feature to insert for unknown TYPENAME"

\* what an action adds to the four lists when it is read on its own
Alone(action) == read_action(EmptyRead, LayerDefinitions, action)

\* C23: the Transaction built from a body holds, in each of its four lists, what the
\* top-level actions add to that list one after the other in document order: what an
\* action adds does not depend on the actions before it, and an action that records
\* read failures keeps no later action from being read. An action with an
\* unrecognized tag adds one read failure with its handle and nothing else.
C23_DocumentOrder ==
    TransactionBuilt =>
        LET actions == content.actions
        IN  /\ transaction[1].features_to_insert =
                  Flatten([i \in DOMAIN actions |-> Alone(actions[i]).features_to_insert])
            /\ transaction[1].features_to_update =
                  Flatten([i \in DOMAIN actions |-> Alone(actions[i]).features_to_update])
            /\ transaction[1].features_to_delete =
                  Flatten([i \in DOMAIN actions |-> Alone(actions[i]).features_to_delete])
            /\ transaction[1].read_transaction_failures =
                  Flatten([i \in DOMAIN actions |->
                              Alone(actions[i]).wfs_read_transaction_failures])
            /\ \A i \in DOMAIN actions :
                  actions[i].tag \notin {"Insert", "Update", "Delete"} =>
                      Alone(actions[i]) =
                          [EmptyRead EXCEPT !.wfs_read_transaction_failures =
                              <<CommitOutcomeItem("Received unknown operation type: ",
                                                  None, actions[i].handle)>>]

C23_Witness ==
    /\ TransactionBuilt
    /\ Len(content.actions) = 2
    /\ content.actions[1].tag = "Native"
    /\ content.actions[2].tag = "Update"
    /\ Len(transaction[1].features_to_update) = 2
    /\ Len(transaction[1].read_transaction_failures) = 1
    /\ transaction[1].read_transaction_failures[1].handle = "h1"

\* an Update or Delete with a filter child that is no feature-id filter, and with no
\* other cause of a read failure among its properties
UnsupportedFilter(action) ==
    /\ action.tag \in {"Update", "Delete"}
    /\ \E i \in DOMAIN action.filters : \E j \in DOMAIN action.filters[i] :
          action.filters[i][j].tag /= "FeatureId"
    /\ \A k \in DOMAIN action.properties :
          action.properties[k].name = "geometry" => Len(action.properties[k].geos) = 1

\* C24: in the Transaction built from a body of Update and Delete actions that each
\* have a filter child that is no feature-id filter, wherever it sits among the
\* children, there is exactly one read failure per action and no feature to update
\* or to delete.
C24_UnsupportedFilterFailsAction ==
    (/\ TransactionBuilt
     /\ \A i \in DOMAIN content.actions : UnsupportedFilter(content.actions[i])) =>
        /\ Len(transaction[1].read_transaction_failures) = Len(content.actions)
        /\ transaction[1].features_to_update = <<>>
        /\ transaction[1].features_to_delete = <<>>

\* an Update on a known layer that allows Update, with feature-id filters only
PlainUpdate(action) ==
    /\ action.tag = "Update"
    /\ \E i \in DOMAIN LayerDefinitions :
          /\ LayerDefinitions[i].name = action.typeName
          /\ "Update" \in LayerDefinitions[i].operations
    /\ \A i \in DOMAIN action.filters : \A j \in DOMAIN action.filters[i] :
          action.filters[i][j].tag = "FeatureId"

Last(S) == CHOOSE i \in S : \A j \in S : j <= i

\* the declared fields of the layer an Update names
DeclaredFields(action) ==
    UNION {{LayerDefinitions[i].fields[j].name : j \in DOMAIN LayerDefinitions[i].fields} :
              i \in {k \in DOMAIN LayerDefinitions :
                        LayerDefinitions[k].name = action.typeName}}

\* the field_data an Update asks for: the value of each declared field it names, the
\* last one when it names the field more than once
ExpectedFieldData(action) ==
    LET named(n) == {k \in DOMAIN action.properties : action.properties[k].name = n}
    IN  {<<n, action.properties[Last(named(n))].text>> :
            n \in {m \in DeclaredFields(action) : named(m) /= {}}}

\* its geometry properties with exactly one geometry, and the others
ValidGeometries(action) ==
    {k \in DOMAIN action.properties :
        action.properties[k].name = "geometry" /\ Len(action.properties[k].geos) = 1}

InvalidGeometries(action) ==
    {k \in DOMAIN action.properties :
        action.properties[k].name = "geometry" /\ Len(action.properties[k].geos) /= 1}

\* the geometry an Update asks for: None, for unchanged, when it has no valid one
ExpectedGeometry(action) ==
    IF ValidGeometries(action) = {} THEN None
    ELSE action.properties[Last(ValidGeometries(action))].geos[1]

\* one update per feature id of the filters, in filter order
ExpectedUpdates(action) ==
    LET ids == Flatten(action.filters)
    IN  [k \in DOMAIN ids |->
            UncommittedFeatureUpdate(action.typeName, ids[k].fid,
                                     ExpectedGeometry(action), ExpectedFieldData(action),
                                     action.handle)]

\* C25: in the Transaction built from a body of Update actions on known layers that
\* allow Update, with feature-id filters only, the features to update are, action by
\* action, one per feature id in filter order, all those of an action with the same
\* geometry, the same field_data and the action's handle; field_data holds the
\* properties that name a declared field of the layer and no other, and a property
\* that names no declared field records no read failure.
C25_UpdatePerFeatureId ==
    (/\ TransactionBuilt
     /\ \A i \in DOMAIN content.actions : PlainUpdate(content.actions[i])) =>
        /\ transaction[1].features_to_update =
              Flatten([i \in DOMAIN content.actions |->
                          ExpectedUpdates(content.actions[i])])
        /\ Len(transaction[1].read_transaction_failures) =
              Cardinality(UNION {{<<i, k>> : k \in InvalidGeometries(content.actions[i])} :
                                    i \in DOMAIN content.actions})

C25_Witness ==
    /\ TransactionBuilt
    /\ Len(content.actions) = 1
    /\ PlainUpdate(content.actions[1])
    /\ \E k \in DOMAIN content.actions[1].properties :
          content.actions[1].properties[k].name = "colour"
    /\ transaction[1].read_transaction_failures = <<>>
    /\ transaction[1].features_to_update =
          << UncommittedFeatureUpdate("points", "points.2", None,
                 {<<"description", "d">>, <<"area_name", "B">>}, "h1"),
             UncommittedFeatureUpdate("points", "points.1", None,
                 {<<"description", "d">>, <<"area_name", "B">>}, "h1") >>

\* C26: in the Transaction built from a body of such Update actions, each with a
\* geometry property whose value does not have exactly one geometry, every such
\* property has one read failure, with the handle of its action and in order; the
\* other properties and the filters are read all the same: there is one feature to
\* update per feature id, with the field_data of the action, and with a geometry of
\* None unless the action has a geometry property with exactly one geometry.
C26_InvalidGeometrySkipped ==
    (/\ TransactionBuilt
     /\ \A i \in DOMAIN content.actions :
           /\ PlainUpdate(content.actions[i])
           /\ InvalidGeometries(content.actions[i]) /= {}) =>
        LET actions == content.actions
            carried(Part(_)) ==
                Flatten([i \in DOMAIN actions |->
                            [k \in DOMAIN Flatten(actions[i].filters) |-> Part(actions[i])]])
            updates == transaction[1].features_to_update
        IN  /\ transaction[1].read_transaction_failures =
                  Flatten([i \in DOMAIN actions |->
                              [k \in 1..Cardinality(InvalidGeometries(actions[i])) |->
                                  CommitOutcomeItem(
                                      "Received invalid feature update with n geometries",
                                      actions[i].typeName, actions[i].handle)]])
            /\ [k \in DOMAIN updates |-> updates[k].geometry] = carried(ExpectedGeometry)
            /\ [k \in DOMAIN updates |-> updates[k].field_data] =
                  carried(ExpectedFieldData)

C26_Witness ==
    /\ TransactionBuilt
    /\ Len(content.actions) = 2
    /\ \A i \in DOMAIN content.actions :
          PlainUpdate(content.actions[i]) /\ InvalidGeometries(content.actions[i]) /= {}
    /\ Len(transaction[1].read_transaction_failures) = 2
    /\ Len(transaction[1].features_to_update) = 2
    /\ transaction[1].features_to_update[1].geometry = None
    /\ transaction[1].features_to_update[1].field_data = {<<"description", "d">>}
    /\ transaction[1].features_to_update[2].geometry = "gml2"

\* C27: in the Transaction built from a body whose actions all have the same handle,
\* or all have none, every feature to insert, to update and to delete and every read
\* failure carries that handle, or None.
C27_HandleCarried ==
    TransactionBuilt =>
        \A h \in {None, "h1"} :
            (\A i \in DOMAIN content.actions : content.actions[i].handle = h) =>
                /\ \A k \in DOMAIN transaction[1].features_to_insert :
                      transaction[1].features_to_insert[k].handle = h
                /\ \A k \in DOMAIN transaction[1].features_to_update :
                      transaction[1].features_to_update[k].handle = h
                /\ \A k \in DOMAIN transaction[1].features_to_delete :
                      transaction[1].features_to_delete[k].handle = h
                /\ \A k \in DOMAIN transaction[1].read_transaction_failures :
                      transaction[1].read_transaction_failures[k].handle = h

(***************************************************************************)
(* C28: a login sequence that fails.                                       *)
(***************************************************************************)
\* the call of c ends in the failure of the login sequence it ran
FailsNow(c) == s_pc[c] \in {"login", "token"} /\ s_pc'[c] = "failed"

\* C28: in every state, a call whose login POST was answered with a status other than
\* 302 has failed and got no second answer, a call whose token request was answered
\* with a status other than 200 has failed, and the token requests sent are as many as
\* the login POSTs answered 302; in every step, a call that fails on such an answer
\* leaves the stored token and the validity of the stored expiry as they were, sends
\* no token request and makes no other call fail; a failed call stays failed, and a
\* call sends a login POST from the start or from the wait for the lock only.
C28_FailedLogin ==
    /\ [](\A c \in Callers :
            /\ (Len(s_answers[c]) >= 1 /\ s_answers[c][1] /= 302) =>
                  (s_pc[c] = "failed" /\ Len(s_answers[c]) = 1)
            /\ (Len(s_answers[c]) = 2 /\ s_answers[c][2] /= 200) => s_pc[c] = "failed"
            /\ s_pc[c] = "token" => s_answers[c] = <<302>>
            /\ s_pc[c] = "body" => s_answers[c] = <<302, 200>>
            /\ Len(s_answers[c]) <= 2)
    /\ [](token_gets = Cardinality({c \in Callers :
                                      Len(s_answers[c]) >= 1 /\ s_answers[c][1] = 302}))
    /\ [][\A c \in Callers :
            /\ FailsNow(c) =>
                  /\ csrf_token' = csrf_token
                  /\ session_valid' = session_valid
                  /\ token_gets' = token_gets
                  /\ s_failures' = s_failures + 1
                  /\ \A d \in Callers \ {c} : s_pc'[d] = "failed" => s_pc[d] = "failed"
            /\ s_pc[c] = "failed" => s_pc'[c] = "failed"
            /\ (s_pc'[c] = "login" /\ s_pc[c] /= "login") =>
                  s_pc[c] \in {"idle", "waiting"}]_vars

\* a call failed on a login POST answered 403 while the client held a token that had
\* run out, and another on a token request answered 403
C28_Witness ==
    /\ csrf_token /= None
    /\ \E c \in Callers : s_pc[c] = "failed" /\ s_answers[c] = <<403>>
    /\ \E c \in Callers : s_pc[c] = "failed" /\ s_answers[c] = <<302, 403>>
    /\ token_gets = 2

(***************************************************************************)
(* C29: the two locks of one client.                                       *)
(***************************************************************************)
\* the call of c, or the operation o, leaves the code the lock guards
LeavesSession(c) ==
    s_pc[c] \in {"waiting", "login", "token", "body"} /\ s_pc'[c] \in {"done", "failed"}

LeavesVocabulary(o) ==
    v_pc[o] \in {"waiting", "lookup"} /\ v_pc'[o] \in {"done", "failed"}

\* C29: each of the two locks is held in the states where a caller is inside the code
\* it guards and in no other: on whatever path the caller leaves that code (value
\* stored, value found fresh on the re-check, exception), the lock is released. So
\* every caller waiting on a lock has a holder ahead of it, in every step in which
\* the holder leaves, the first waiting caller stops waiting in that same step, and
\* with nobody inside, also after a failure, the lock is free and nobody waits.
C29_LocksReleased ==
    /\ [](/\ lock_locked <=> InFlight /= {}
          /\ lock_waiting /= <<>> => lock_locked
          /\ \A c \in Callers :
                s_pc[c] = "waiting" <=> \E i \in DOMAIN lock_waiting : lock_waiting[i] = c)
    /\ [](/\ vlock_locked <=> LookingUp /= {}
          /\ vlock_waiting /= <<>> => vlock_locked
          /\ \A o \in Operations :
                v_pc[o] = "waiting" <=>
                    \E i \in DOMAIN vlock_waiting : vlock_waiting[i] = o)
    /\ [][/\ \A c \in Callers :
                (LeavesSession(c) /\ lock_waiting /= <<>>) =>
                    s_pc'[Head(lock_waiting)] /= "waiting"
          /\ \A o \in Operations :
                (LeavesVocabulary(o) /\ vlock_waiting /= <<>>) =>
                    v_pc'[Head(vlock_waiting)] /= "waiting"]_vars

\* after a failed login and a failed lookup, with both locks free again, a later call
\* of each kind is inside the guarded code
C29_Witness ==
    /\ \E c \in Callers : s_pc[c] = "failed"
    /\ \E c \in Callers : s_pc[c] = "login" /\ s_failures >= 1 /\ lock_waiting = <<>>
    /\ \E o \in Operations : v_pc[o] = "failed"
    /\ \E o \in Operations : v_pc[o] = "lookup" /\ v_lookups = 2 /\ vlock_waiting = <<>>
    /\ ~AllReturned

(***************************************************************************)
(* C30: the expiry of a session.                                           *)
(***************************************************************************)
\* the cookies with an expiry, and those of them whose name starts with SESS
WithExpiry == {i \in DOMAIN cookie_jar : cookie_jar[i].expires /= <<>>}

SessionPrefixed ==
    {i \in WithExpiry :
        /\ Len(cookie_jar[i].name) >= 4
        /\ cookie_jar[i].name[1] = "S" /\ cookie_jar[i].name[2] = "E"
        /\ cookie_jar[i].name[3] = "S" /\ cookie_jar[i].name[4] = "S"}

Earliest(S) ==
    CHOOSE t \in {cookie_jar[i].expires[1] : i \in S} :
        \A i \in S : t <= cookie_jar[i].expires[1]

\* C30: the expiry derived after a login is the earliest expiry among the cookies that
\* have one and whose name starts with SESS, if there is such a cookie; else the
\* earliest expiry among the cookies that have one, if there is one; else 24 hours
\* from now. It is the expiry derived from the jar without the cookies that have no
\* expiry.
C30_SessionExpiry ==
    session_expiry /= NoDateTime =>
        /\ SessionPrefixed /= {} => session_expiry.utc = Earliest(SessionPrefixed)
        /\ (SessionPrefixed = {} /\ WithExpiry /= {}) =>
              session_expiry.utc = Earliest(WithExpiry)
        /\ WithExpiry = {} => session_expiry.utc = now.utc + 48
        /\ session_expiry =
              derive_session_expiry_date_time(
                  SelectSeq(cookie_jar, LAMBDA cookie : cookie.expires /= <<>>), now)

\* a SESS cookie that expires later than another cookie decides
C30_Witness ==
    /\ session_expiry /= NoDateTime
    /\ Len(cookie_jar) = 2
    /\ cookie_jar[1] = [name |-> <<"h", "a", "s">>, expires |-> <<9>>]
    /\ cookie_jar[2] = [name |-> <<"S", "E", "S", "S", "a">>, expires |-> <<60>>]
    /\ session_expiry = fromtimestamp(60)
    /\ now = fromtimestamp(20)


(***************************************************************************)
(* C35: the page a traversal asks for.                                     *)
(***************************************************************************)
\* the last call was made on a page that held no page in the direction of the call,
\* and was not stopped at an end of the listing
Fetching == w_step /= NoStep /\ w_step.held = NoPage /\ w_step.asked /= <<>>

\* the page number next to that of the page the last call was made on
Adjacent ==
    IF w_step.direction = "forward" THEN pg_pages[w_step.on].page_num + 1
    ELSE pg_pages[w_step.on].page_num - 1

\* C35: on a page numbered k that holds no page in the direction of the call,
\* next_page asks the backend for page k + 1 and prev_page for page k - 1, and the
\* page returned has that number; also for prev_page on a page reached by a
\* forgetful next_page.
C35_AdjacentPage ==
    Fetching =>
        /\ w_step.asked = <<Adjacent>>
        /\ w_step.raised = None => pg_pages[w_step.result].page_num = Adjacent

(***************************************************************************)
(* C36: the pages a page holds.                                            *)
(***************************************************************************)
\* the reference of a page that points against the direction of the last call
BackRef(page) == IF w_step.direction = "forward" THEN page.prev_page_ref ELSE page.next_page_ref

\* C36: a call of next_page (or prev_page) on a page that holds a page in that
\* direction, from an earlier call in that direction or as the page a call that
\* was not forgetful came from, returns the page held and asks nothing of the
\* backend; a page fetched by a call that was not forgetful holds the page the call
\* was made on in the opposite direction, one fetched by a forgetful call holds none.
C36_SamePageAgain ==
    w_step /= NoStep =>
        /\ w_step.held /= NoPage =>
               w_step.result = w_step.held /\ w_step.asked = <<>>
        /\ (Fetching /\ w_step.raised = None) =>
               BackRef(pg_pages[w_step.result]) =
                   IF w_step.forgetful THEN NoPage ELSE w_step.on

(***************************************************************************)
(* C37: the ends of a listing.                                             *)
(***************************************************************************)
\* C37: next_page on a page whose number is the maximum page number, and prev_page
\* on page 0, return no page and ask nothing of the backend; has_next_page tells
\* whether the page number is below the maximum and has_prev_page whether it is
\* above 0; no page number outside 0..max is ever asked of the backend.
C37_WithinListing ==
    /\ w_step /= NoStep =>
           LET page == pg_pages[w_step.on]
               at_end == IF w_step.direction = "forward"
                         THEN page.page_num = page.max_page_num
                         ELSE page.page_num = 0
           IN  at_end => w_step.result = NoPage /\ w_step.asked = <<>>
    /\ \A p \in DOMAIN pg_pages :
           /\ has_next_page(pg_pages[p]) <=> pg_pages[p].page_num < pg_pages[p].max_page_num
           /\ has_prev_page(pg_pages[p]) <=> pg_pages[p].page_num > 0
    /\ \A i \in DOMAIN pg_fetches : pg_fetches[i] \in 0..(pg_count - 1)

(***************************************************************************)
(* C38: get_all_entities.                                                  *)
(***************************************************************************)
\* the records of all the pages of the listing, in page order
AllRecords == Flatten([i \in 1..pg_count |-> Records(i - 1, all_sizes[i])])

\* C38: for a listing of pages 0..M, whatever the number of records on each page,
\* get_all_entities asks the backend for each of the M + 1 pages once, in increasing
\* order, and returns one page with the records of all the pages in page order.
C38_AllPages ==
    all_pc = "done" =>
        /\ pg_fetches = [i \in 1..pg_count |-> i - 1]
        /\ all_returned = AllRecords

(***************************************************************************)
(* C39: the maximum page number.                                           *)
(***************************************************************************)
\* the page number the last call was after
Target ==
    IF w_step.direction = "forward" THEN pg_pages[w_step.on].page_num + 1
    ELSE pg_pages[w_step.on].page_num - 1

\* the last call returned None: the traversal stops in that direction
Stopped == w_step.result = NoPage /\ w_step.raised = None

\* C39, as stated: the maximum page number is that of the first page's answer for
\* every page of the listing, and a call stops the traversal when its target lies
\* beyond that maximum (or below 0), whatever the later answers name as last page.
C39_ParsedOnce ==
    /\ \A p \in DOMAIN pg_pages : pg_pages[p].max_page_num = pg_count - 1
    /\ w_step /= NoStep => (Stopped <=> (Target < 0 \/ Target > pg_count - 1))

\* C39, amended: every page has the maximum page number named by the answer it was
\* built from, the first page that of the first answer; a call stops the traversal
\* when its target lies beyond the maximum of the page it is made on (or below 0).
C39_ParsedPerPage ==
    /\ pg_pages /= <<>> => pg_pages[1].max_page_num = pg_count - 1
    /\ (Fetching /\ w_step.raised = None) =>
           pg_pages[w_step.result].max_page_num = w_step.last[1]
    /\ w_step /= NoStep =>
           (Stopped <=> (Target < 0 \/ Target > pg_pages[w_step.on].max_page_num))

\* next_page stopped on a page whose answer named an earlier last page than the first
\* answer did, before the last page the first answer named
C39_Witness ==
    /\ w_step /= NoStep
    /\ w_step.direction = "forward"
    /\ Stopped
    /\ w_step.on /= 1
    /\ pg_pages[w_step.on].max_page_num < pg_pages[1].max_page_num
    /\ pg_pages[w_step.on].page_num < pg_pages[1].max_page_num

(***************************************************************************)
(* C33: entity requests are authenticated.                                 *)
(***************************************************************************)
\* a login sequence of the client has run to its end and stored its token
LoginCompleted == \E c \in Callers : s_answers[c] = <<302, 200>> /\ s_pc[c] = "done"

\* C33: an entity request is sent only when the session check of its call has
\* passed, and carries the token a completed login sequence stored, never None; a
\* call whose session check failed sends no entity request.
C33_RequestsAuthenticated ==
    /\ e_event.kind = "request" =>
           /\ e_event.checked = "done"
           /\ e_event.token /= None
           /\ e_event.token = csrf_token
           /\ LoginCompleted
    /\ \A c \in Callers :
           /\ e_requests[c] > 0 => s_pc[c] = "done"
           /\ s_pc[c] = "failed" => e_requests[c] = 0

\* one call raised for its failed login and sent nothing; another one's request was
\* sent with the token a later login stored
C33_Witness ==
    /\ e_event.kind = "request"
    /\ \E c \in Callers :
           s_pc[c] = "failed" /\ e_pc[c] = "raised" /\ e_requests[c] = 0

(***************************************************************************)
(* C34: one request per entity operation, and the status it expects.       *)
(***************************************************************************)
\* C34: an entity operation sends one entity request and no second one, and returns
\* if and only if the answer has the status expected: 201 for create_entity, 200
\* for get_entity, a listing page, update_entity and delete_entity; any other answer
\* makes it raise.
C34_ExpectedStatus ==
    /\ \A c \in Callers :
           /\ e_requests[c] <= 1
           /\ e_pc[c] \in {"sent", "returned"} => e_requests[c] = 1
    /\ e_event.kind = "answer" =>
           LET wanted == CASE e_event.op = "create_entity" -> 201
                           [] e_event.op = "get_entity" -> 200
                           [] e_event.op = "get_entities" -> 200
                           [] e_event.op = "update_entity" -> 200
                           [] e_event.op = "delete_entity" -> 200
           IN  /\ e_requests[e_event.caller] = 1
               /\ e_pc[e_event.caller] =
                      IF e_event.code = wanted THEN "returned" ELSE "raised"

\* a create_entity answered 200 raised, and the other operation has returned
C34_Witness ==
    /\ e_event.kind = "answer"
    /\ e_event.op = "create_entity"
    /\ e_event.code = 200
    /\ e_pc[e_event.caller] = "raised"
    /\ \E c \in Callers : c /= e_event.caller /\ e_pc[c] = "returned"

(***************************************************************************)
(* C32: the stored session.                                                *)
(***************************************************************************)
\* the stored token, or the stored expiry, is set in this step
SessionStored == csrf_token' /= csrf_token \/ s_stored' /= s_stored

\* a step that sets the token or the expiry starts with the session lock held, and
\* a token that is stored is not None after the step
SessionStoredUnderLock ==
    [][/\ SessionStored => lock_locked
       /\ csrf_token /= None => csrf_token' /= None]_vars

\* C32: the token and the expiry of a client are set only in steps that start with
\* its session lock held, and a token once stored is never None again; in every
\* state, which is where another task can run, the stored token and the stored
\* expiry were stored by the same login sequence, or neither is stored.
C32_SessionAsAWhole ==
    /\ [](s_stored.token = s_stored.expiry)
    /\ [](csrf_token = None <=> s_stored.token = 0)
    /\ SessionStoredUnderLock

(***************************************************************************)
(* C40: the order of the two locks.                                        *)
(***************************************************************************)
\* operation o holds, or waits for, the lock
InSession(o) == s_pc[o] \in {"waiting", "login", "token", "body"}
InVocabulary(o) == v_pc[o] \in {"waiting", "lookup"}

\* operation o was started; it has returned or raised
Started(o) == v_pc[o] /= "idle" \/ s_pc[o] /= "idle"
Finished(o) ==
    \/ v_pc[o] = "failed"
    \/ v_pc[o] \in {"idle", "done"} /\ s_pc[o] \in {"done", "failed"}

\* C40: an operation that holds or waits for the session lock never waits for the
\* vocabulary lock, and it takes the session lock while it is in the vocabulary
\* lookup only as the holder of the vocabulary lock; whoever waits on a lock has a
\* holder ahead that waits for the backend or for the session lock only; so, the
\* backend answering every request, every operation started returns or raises.
C40_LockOrder ==
    /\ [](\A o \in Requesters :
            /\ InSession(o) => v_pc[o] /= "waiting"
            /\ (InSession(o) /\ InVocabulary(o)) => (v_pc[o] = "lookup" /\ vlock_locked))
    /\ [](/\ lock_waiting /= <<>> => \E o \in Requesters : s_pc[o] \in {"login", "token", "body"}
          /\ vlock_waiting /= <<>> => \E o \in Requesters : v_pc[o] = "lookup")
    /\ \A o \in Requesters : Started(o) ~> Finished(o)

\* one operation waits for the vocabulary lock, whose holder waits for the session
\* lock, whose holder waits for the backend
C40_Witness ==
    \E a, b, d \in Requesters :
        /\ v_pc[a] = "waiting"
        /\ v_pc[b] = "lookup" /\ s_pc[b] = "waiting"
        /\ v_pc[d] = "idle" /\ s_pc[d] \in {"login", "token", "body"}

(***************************************************************************)
(* C31: the locks of different clients.                                    *)
(***************************************************************************)
CallsOn(k) == {c \in Callers : client_of(c) = k}

\* something of client k, or of a call on it, changes in this step
ClientChanges(k) ==
    \/ p_token'[k] /= p_token[k] \/ p_vid'[k] /= p_vid[k]
    \/ p_slock'[k] /= p_slock[k] \/ p_vlock'[k] /= p_vlock[k]
    \/ \E c \in CallsOn(k) : p_spc'[c] /= p_spc[c] \/ p_vpc'[c] /= p_vpc[c]

\* C31: a call waits on a lock only while a call on the same client is in that
\* client's login, or vocabulary lookup; a step of one client changes nothing of
\* another client or of the calls on it, so the calls on different clients log in
\* and look up in any interleaving.
C31_LocksPerClient ==
    /\ [](\A c \in Callers :
            /\ p_spc[c] = "waiting" =>
                   \E d \in CallsOn(client_of(c)) : p_spc[d] \in {"login", "token"}
            /\ p_vpc[c] = "waiting" =>
                   \E d \in CallsOn(client_of(c)) : p_vpc[d] = "lookup")
    /\ [][\A k, j \in Clients : (k /= j /\ ClientChanges(k)) => ~ClientChanges(j)]_vars

\* the first login of one client is in flight, with a second call waiting for that
\* client's vocabulary lock, and a call on the other client has logged in and got
\* its vocabulary id
C31_Witness ==
    \E c, d, e \in Callers :
        /\ client_of(c) /= client_of(d)
        /\ client_of(e) = client_of(c)
        /\ p_spc[c] = "login" /\ p_token[client_of(c)] = None
        /\ p_vpc[e] = "waiting"
        /\ p_spc[d] = "done" /\ p_vpc[d] = "done"
        /\ p_posts[client_of(d)] = 1
=============================================================================
